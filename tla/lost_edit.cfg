SPECIFICATION TranscriptSpec
CONSTANTS
  Byte <- MCByte
  Start = {4, 5, 6, 7}
  Command <- MCCommand
  MaxStream = 8
  Base = 4
  Padding = 2
  Channel = 2
  Wrapper <- MCWrapper
  HeaderSize = 2
  NoRaw = NoRaw
  NoBaseline = NoBaseline
  Default <- MCDefault
  ObserverMagic = 5
  Limits = {3}
  Events <- MCEvents
  MaxDatagrams = 3
  MaxDatagramEdits = 1
  NoTranscript = NoTranscript
  NoFlow = NoFlow
  NoProgram = NoProgram
  NoOutput = NoOutput
  Registries <- MCRegistries
  Magics = {5, 0}
  Files <- MCFiles
  Streams <- MCStreams
  Edits <- MCEdits
  Additions <- MCAdditions
  MaxChunk = 3
  MaxEdits = 2
INVARIANT NoEditIsLost
CHECK_DEADLOCK FALSE
