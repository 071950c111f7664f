CONSTANTS
 Messages = {m1, m2}
 Requests = {r1, r2}
 Kinds = {"text", "file", "noise", "reset", "leave"}
 SpamLimit = 1
 MaxChanges = 1
 NoOne = NoOne
 Earlier = Earlier
SPECIFICATION Spec
INVARIANTS TakenOnce StoppedChatsRest
PROPERTY AnswersOwnFile
SYMMETRY Symmetry
CHECK_DEADLOCK FALSE
