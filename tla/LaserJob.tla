------------------------------ MODULE LaserJob -------------------------------
(***************************************************************************)
(* What a job plan promises: once it is accepted, the laser head carries   *)
(* out its orders one after the other, each in the regime that was planned *)
(* for it, and nothing else.  A mark may be carried out in several strokes *)
(* that follow one another on its line; every other order is one stroke.   *)
(***************************************************************************)
EXTENDS Integers, Sequences

CONSTANT NoModulation

VARIABLES
  accepted, \* whether a plan is
  job,      \* its orders
  done,     \* how many of them are carried out
  at,       \* where the head is
  stroke    \* the last stroke: what the head did, from where, to where and how

jobvars == <<accepted, job, done, at, stroke>>

Init == ~accepted /\ done = 0

\* A plan is accepted; nothing has moved.
Accept ==
  /\ ~accepted /\ accepted' /\ done' = 0
  /\ UNCHANGED <<at, stroke>>

\* c lies between a and b, b included.
Between(a, c, b) ==
  \/ c = b
  \/ a < c /\ c < b
  \/ b < c /\ c < a

\* The next point on the line from p to q, which a mark in pieces follows only
\* along an axis.
OnTheWay(p, r, q) ==
  \/ r = q
  \/ p[1] = q[1] /\ r[1] = q[1] /\ r # p /\ Between(p[2], r[2], q[2])
  \/ p[2] = q[2] /\ r[2] = q[2] /\ r # p /\ Between(p[1], r[1], q[1])

\* The stroke is made as the order says.  An order without modulation leaves it
\* open: docs/integration.md says nothing of it.
AsOrdered(s, order) ==
  /\ s.kind = order.kind
  /\ s.kind \in {"mark", "pulse"} =>
       /\ s.regime = order.regime
       /\ order.modulation # NoModulation => s.modulation = order.modulation

\* The head carries out the next order, or a part of it if it is a mark.
CarryOut ==
  /\ accepted /\ done < Len(job)
  /\ LET order == job[done + 1]
     IN  /\ AsOrdered(stroke', order)
         /\ stroke'.from = at /\ stroke'.to = at'
         /\ \/ at' = order.to /\ done' = done + 1
            \/ /\ order.kind = "mark" /\ at' # order.to
               /\ OnTheWay(at, at', order.to) /\ done' = done
  /\ UNCHANGED <<accepted, job>>

Next == Accept \/ CarryOut

Spec == Init /\ [][Next]_jobvars

=============================================================================
