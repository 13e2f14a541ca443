\* Two commands that are answered and one that is not; the line adds bytes of them, or bytes
\* that end a string.  Both buffers can be overrun.
CONSTANTS
  zero = zero
  one = one
  two = two
  head = head
  tail = tail
  nul = nul
  Letters = {zero, one, two}
  Dollar = head
  Hash = tail
  Nul = nul
  Known <- Answered
  Unknown <- Ignored
  Longest = 2
  Noise = {zero, nul}
  Size = 7
  MaxFrames = 3
  MaxNoise = 2
SPECIFICATION FairSpec
INVARIANTS
  AnswersWereAsked
PROPERTIES
  BuffersHold
  PatientIsAnswered
\* A read waits when nothing comes.
CHECK_DEADLOCK FALSE
