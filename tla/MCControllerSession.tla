------------------------ MODULE MCControllerSession ------------------------
(***************************************************************************)
(* Instances of ControllerSession for TLC: clients and their worlds.       *)
(***************************************************************************)
EXTENDS ControllerSessionContract

Udp ==
  [acknowledged |-> TRUE, dataAcknowledges |-> FALSE, retries |-> 1,
   events |-> 2, drain |-> 1, explicit |-> TRUE, units |-> 2, chunks |-> 2,
   operations |-> PublicOperation, quiescent |-> TRUE, unsolicited |-> FALSE,
   packets |-> 2, exchanges |-> 2, duplicates |-> 0]

Small ==
  [Udp EXCEPT !.retries = 0, !.events = 1, !.units = 1, !.chunks = 1,
              !.packets = 1]

\* Sessions that come and go on a link nobody waits to settle, with datagrams
\* delivered twice.
Unsettled ==
  [Small EXCEPT !.explicit = FALSE, !.duplicates = 1, !.quiescent = FALSE,
                !.operations = {"probe", "close", "request"}]

\* Data that acknowledges, replies that an idle gap ends, and CE sent unasked;
\* without keep-alives, so that CE is never an acknowledgement.
IdleGap ==
  [Udp EXCEPT !.dataAcknowledges = TRUE, !.explicit = FALSE,
              !.packets = 1, !.unsolicited = TRUE,
              !.operations = {"open", "close", "noReply", "request"}]

Serial ==
  [Small EXCEPT !.acknowledged = FALSE, !.units = 2, !.chunks = 2,
                !.packets = 2]

\* A controller that keeps talking.
Talkative ==
  [Small EXCEPT !.retries = 1, !.events = 2, !.exchanges = 1,
                !.unsolicited = TRUE]

\* A session whose open() probes, and a keep-alive followed by a job on one open
\* link.
Probing ==
  [Small EXCEPT !.operations = {"probe", "close"}, !.exchanges = 1]

KeepAliveThenJob ==
  [Small EXCEPT !.operations = {"open", "keepAlive", "noReply"},
                !.unsolicited = TRUE]

UdpSetups       == {Udp}
OtherSetups     == {Unsettled, IdleGap, Serial, Talkative}
ProbingSetups   == {Probing}
KeepAliveSetups == {KeepAliveThenJob}

=============================================================================
