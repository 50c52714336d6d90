SPECIFICATION Spec
CONSTANTS
  Films = {f1, f2}
  None = None
  MaxMoves = 1
  MaxPlays = 2
  MaxFaults = 1
  MaxGen = 22
INVARIANTS OwnTimeline PushHasItsCache
PROPERTIES QuietWhenStopped SoundComesBack LetGoAtTheEnd
