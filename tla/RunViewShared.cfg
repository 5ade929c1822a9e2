\* Two sessions, two messages without content, two switches: sends that go on
\* behind another session, details asked for before their runs have ended.
SPECIFICATION Spec
CONSTANTS
  Sessions = {s1, s2}
  NoSession = NoSession
  MaxSends = 2
  MaxEvents = 0
  MaxTalks = 0
  MaxFaults = 0
  MaxTurns = 2
  Content = {}
SYMMETRY Symmetry
INVARIANTS SessionOwnsRun HandedOverIsFinal OutcomeVisible
CHECK_DEADLOCK FALSE
