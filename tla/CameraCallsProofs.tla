-------------------------- MODULE CameraCallsProofs --------------------------
(***************************************************************************)
(* Proofs about CameraCalls, for all menus, texts and indexes: nothing is    *)
(* leaked or released twice, and setExposureTime() sets the choice asked for. *)
(***************************************************************************)
EXTENDS CameraCalls, TLAPS

WidgetCall == {"value", "type", "setValue", "setConfig", "count", "choice", "out"}
FileCall == {"open", "newFile", "fetch", "close", "freeFile"}
Held == {"unset", "held", "freed"}

\* Every variable keeps its type.
TypeOK ==
  /\ setting \in Text /\ menu \in Seq(Text)
  /\ task \in {"none", "serial", "exposure", "set", "setExposure", "times", "download"}
  /\ doing \in {"none", "get", "set", "list", "download"}
  /\ pc \in {"idle", "config", "helped"} \cup WidgetCall \cup FileCall
  /\ widget \in Held /\ file \in Held /\ stream \in Held \cup {"null"}
  /\ copy \in [setting : Text, menu : Seq(Text)]
  /\ value \in Text /\ index \in Int
  /\ choices \in Seq(Text) /\ offered \in Seq(Text)
  /\ n \in Int
  /\ success \in BOOLEAN

\* What is held at each call.
HeldHere ==
  /\ pc \in WidgetCall <=> widget = "held"
  /\ pc \in {"newFile", "fetch"} => stream = "held"
  /\ pc \in {"fetch"} => file = "held"
  /\ pc = "close" => stream \in {"held", "null"}
  /\ pc \notin {"newFile", "fetch", "close"} => stream # "held"
  /\ pc \notin {"fetch", "close", "freeFile"} => file # "held"

\* Which helper makes which call.
Doing ==
  /\ pc \in {"config", "helped"} \cup WidgetCall => doing \in {"get", "set", "list"}
  /\ pc = "value" => doing = "get"
  /\ pc \in {"type", "setValue", "setConfig"} => doing = "set"
  /\ pc \in {"count", "choice"} => doing = "list"
  /\ pc \in FileCall => doing = "download"
  /\ task = "times" => doing = "list"
  /\ task = "setExposure" => doing \in {"list", "set"}

\* What was listed begins the list offered.
Prefix ==
  /\ Len(choices) <= Len(offered)
  /\ \A k \in DOMAIN choices : choices[k] = offered[k]

Listed ==
  /\ pc # "idle" => times = << >>
  /\ doing = "list" => ~success
  /\ doing = "list" /\ pc \in {"config", "count"} => choices = << >>
  /\ doing = "list" => Prefix
  /\ pc = "choice" => copy.menu = offered /\ n <= Len(offered)

\* What is set is the choice found.
Chosen ==
  task = "setExposure" /\ doing = "set" =>
    /\ index + 1 \in DOMAIN offered
    /\ value = offered[index + 1]
    /\ pc = "setConfig" => copy.setting = value

IInv == TypeOK /\ HeldHere /\ Doing /\ Listed /\ Chosen /\ ListKept

\* The initial states satisfy the invariant.
LEMMA InvInit == Init => IInv
<1> SUFFICES ASSUME Init
             PROVE  IInv
  OBVIOUS
<1> USE CallsAssumption DEF Init
<1>1. TypeOK
  <2>1. menu \in Seq(Text)
    OBVIOUS
  <2>2. Empty \in Text /\ setting \in Text
    BY DEF Text
  <2>3. copy \in [setting : Text, menu : Seq(Text)]
    BY <2>2
  <2>4. choices \in Seq(Text) /\ offered \in Seq(Text)
    OBVIOUS
  <2>5. success \in BOOLEAN
    OBVIOUS
  <2> QED
    BY <2>1, <2>2, <2>3, <2>4, <2>5 DEF TypeOK, Held
<1>2. HeldHere /\ Doing
  BY DEF HeldHere, Doing, WidgetCall, FileCall
<1>3. Listed /\ Chosen /\ ListKept
  BY DEF Listed, Prefix, Chosen, ListKept
<1> QED
  BY <1>1, <1>2, <1>3 DEF IInv

\* The beginning of an operation.
LEMMA Beginning ==
  ASSUME IInv, NEW t, NEW d, NEW c, NEW text \in Text, NEW k \in Int,
         Begins(t, d, c, text, k),
         t \in {"serial", "exposure", "set", "setExposure", "times", "download"},
         \/ c = "config" /\ d \in {"get", "set", "list"}
         \/ c = "open" /\ d = "download",
         t \in {"setExposure", "times"} => d = "list"
  PROVE  IInv'
<1> USE DEF IInv, Begins, camera
<1>1. success' \in BOOLEAN
  OBVIOUS
<1>2. TypeOK'
  BY <1>1 DEF TypeOK, WidgetCall, FileCall, Held
<1>3. HeldHere' /\ Doing'
  BY DEF HeldHere, Doing, WidgetCall, FileCall
<1>4. Listed' /\ Chosen' /\ ListKept'
  BY DEF Listed, Prefix, Chosen, ListKept
<1> QED
  BY <1>2, <1>3, <1>4

\* Each operation that may begin leaves the invariant standing when its first call returns.
LEMMA BeginStep ==
  ASSUME IInv, Operation
  PROVE  IInv'
<1>0. Empty \in Text
  BY DEF Text
<1>1. CASE \E text \in Text : setConfigValue(text)
  BY <1>1, Beginning DEF setConfigValue
<1>2. CASE \E k \in Indexes : setExposureTime(k)
  BY <1>0, <1>2, Beginning, CallsAssumption DEF setExposureTime
<1>3. CASE getSerialNumber
  BY <1>0, <1>3, Beginning DEF getSerialNumber
<1>4. CASE getCurrentExposureTime
  BY <1>0, <1>4, Beginning DEF getCurrentExposureTime
<1>5. CASE listAvailableExposureTimes
  BY <1>0, <1>5, Beginning DEF listAvailableExposureTimes
<1>6. CASE downloadFile
  BY <1>0, <1>6, Beginning DEF downloadFile
<1> QED
  BY <1>1, <1>2, <1>3, <1>4, <1>5, <1>6 DEF Operation

\* A call of a helper.
LEMMA HelperStep ==
  ASSUME IInv, Helper
  PROVE  IInv'
<1> USE DEF IInv, Calls, camera, held, work, answer, history
<1>1. CASE GetConfig
  <2> USE <1>1 DEF GetConfig
  <2>1. copy' \in [setting : Text, menu : Seq(Text)]
    BY DEF TypeOK
  <2>2. pc' = IF doing = "get" THEN "value" ELSE IF doing = "set" THEN "type" ELSE "count"
    BY DEF Doing
  <2>3. TypeOK'
    BY <2>1, <2>2 DEF TypeOK, WidgetCall, FileCall, Held
  <2>4. HeldHere' /\ Doing'
    BY <2>2 DEF HeldHere, Doing, TypeOK, WidgetCall, FileCall
  <2>5. Listed' /\ Chosen' /\ ListKept'
    BY <2>2 DEF Listed, Prefix, Chosen, ListKept, Doing
  <2> QED
    BY <2>3, <2>4, <2>5
<1>2. CASE GetConfigFails
  <2> USE <1>2 DEF GetConfigFails
  <2>1. TypeOK'
    BY DEF TypeOK, WidgetCall, FileCall, Held
  <2>2. HeldHere' /\ Doing'
    BY DEF HeldHere, Doing, TypeOK, WidgetCall, FileCall, Held
  <2>3. Listed' /\ Chosen' /\ ListKept'
    BY DEF Listed, Prefix, Chosen, ListKept, Doing, TypeOK, FileCall
  <2> QED
    BY <2>1, <2>2, <2>3
<1>3. CASE FreeWidget
  <2> USE <1>3 DEF FreeWidget
  <2>1. TypeOK'
    BY DEF TypeOK, WidgetCall, FileCall, Held
  <2>2. HeldHere' /\ Doing'
    BY DEF HeldHere, Doing, TypeOK, WidgetCall, FileCall, Held
  <2>3. Listed' /\ Chosen' /\ ListKept'
    BY DEF Listed, Prefix, Chosen, ListKept, Doing, TypeOK, FileCall
  <2> QED
    BY <2>1, <2>2, <2>3
<1>4. CASE GetValue
  <2> USE <1>4 DEF GetValue
  <2>1. TypeOK'
    BY DEF TypeOK, WidgetCall, FileCall, Held
  <2>2. HeldHere' /\ Doing'
    BY DEF HeldHere, Doing, TypeOK, WidgetCall, FileCall, Held
  <2>3. Listed' /\ Chosen' /\ ListKept'
    BY DEF Listed, Prefix, Chosen, ListKept, Doing, TypeOK, FileCall
  <2> QED
    BY <2>1, <2>2, <2>3
<1>5. CASE GetValueFails
  <2> USE <1>5 DEF GetValueFails
  <2>1. TypeOK'
    BY DEF TypeOK, WidgetCall, FileCall, Held
  <2>2. HeldHere' /\ Doing'
    BY DEF HeldHere, Doing, TypeOK, WidgetCall, FileCall, Held
  <2>3. Listed' /\ Chosen' /\ ListKept'
    BY DEF Listed, Prefix, Chosen, ListKept, Doing, TypeOK, FileCall
  <2> QED
    BY <2>1, <2>2, <2>3
<1>6. CASE GetType
  <2> USE <1>6 DEF GetType
  <2>1. TypeOK'
    BY DEF TypeOK, WidgetCall, FileCall, Held
  <2>2. HeldHere' /\ Doing'
    BY DEF HeldHere, Doing, TypeOK, WidgetCall, FileCall, Held
  <2>3. Listed' /\ Chosen' /\ ListKept'
    BY DEF Listed, Prefix, Chosen, ListKept, Doing, TypeOK, FileCall
  <2> QED
    BY <2>1, <2>2, <2>3
<1>7. CASE BadType
  <2> USE <1>7 DEF BadType
  <2>1. TypeOK'
    BY DEF TypeOK, WidgetCall, FileCall, Held
  <2>2. HeldHere' /\ Doing'
    BY DEF HeldHere, Doing, TypeOK, WidgetCall, FileCall, Held
  <2>3. Listed' /\ Chosen' /\ ListKept'
    BY DEF Listed, Prefix, Chosen, ListKept, Doing, TypeOK, FileCall
  <2> QED
    BY <2>1, <2>2, <2>3
<1>8. CASE SetValue
  <2> USE <1>8 DEF SetValue
  <2>1. TypeOK'
    BY DEF TypeOK, WidgetCall, FileCall, Held
  <2>2. HeldHere' /\ Doing'
    BY DEF HeldHere, Doing, TypeOK, WidgetCall, FileCall, Held
  <2>3. Listed' /\ Chosen' /\ ListKept'
    BY DEF Listed, Prefix, Chosen, ListKept, Doing, TypeOK, FileCall
  <2> QED
    BY <2>1, <2>2, <2>3
<1>9. CASE SetValueFails
  <2> USE <1>9 DEF SetValueFails
  <2>1. TypeOK'
    BY DEF TypeOK, WidgetCall, FileCall, Held
  <2>2. HeldHere' /\ Doing'
    BY DEF HeldHere, Doing, TypeOK, WidgetCall, FileCall, Held
  <2>3. Listed' /\ Chosen' /\ ListKept'
    BY DEF Listed, Prefix, Chosen, ListKept, Doing, TypeOK, FileCall
  <2> QED
    BY <2>1, <2>2, <2>3
<1>10. CASE SetConfig
  <2> USE <1>10 DEF SetConfig
  <2>0. success' \in BOOLEAN
    OBVIOUS
  <2>1. TypeOK'
    BY <2>0 DEF TypeOK, WidgetCall, FileCall, Held
  <2>2. HeldHere' /\ Doing'
    BY DEF HeldHere, Doing, TypeOK, WidgetCall, FileCall, Held
  <2>3. Listed' /\ Chosen' /\ ListKept'
    BY DEF Listed, Prefix, Chosen, ListKept, Doing, TypeOK, FileCall
  <2> QED
    BY <2>1, <2>2, <2>3
<1>11. CASE SetConfigFails
  <2> USE <1>11 DEF SetConfigFails
  <2>1. TypeOK'
    BY DEF TypeOK, WidgetCall, FileCall, Held
  <2>2. HeldHere' /\ Doing'
    BY DEF HeldHere, Doing, TypeOK, WidgetCall, FileCall, Held
  <2>3. Listed' /\ Chosen' /\ ListKept'
    BY DEF Listed, Prefix, Chosen, ListKept, Doing, TypeOK, FileCall
  <2> QED
    BY <2>1, <2>2, <2>3
<1>12. CASE CountChoices
  <2> USE <1>12 DEF CountChoices
  <2>1. TypeOK'
    BY DEF TypeOK, WidgetCall, FileCall, Held
  <2>2. HeldHere' /\ Doing'
    BY DEF HeldHere, Doing, TypeOK, WidgetCall, FileCall, Held
  <2>3. Listed' /\ Chosen' /\ ListKept'
    BY DEF Listed, Prefix, Chosen, ListKept, Doing, TypeOK, FileCall
  <2> QED
    BY <2>1, <2>2, <2>3
<1>13. CASE GetChoice
  <2> USE <1>13 DEF GetChoice
  <2>a. Len(choices) + 1 \in 1 .. Len(copy.menu)
    BY DEF Listed, TypeOK
  <2>b. copy.menu[Len(choices) + 1] \in Text
    BY <2>a DEF TypeOK
  <2>0. choices' \in Seq(Text)
    BY <2>b DEF TypeOK
  <2>1. TypeOK'
    BY <2>0 DEF TypeOK, WidgetCall, FileCall, Held
  <2>2. HeldHere' /\ Doing'
    BY DEF HeldHere, Doing, TypeOK, WidgetCall, FileCall, Held
  <2>3. Listed' /\ Chosen' /\ ListKept'
    BY DEF Listed, Prefix, Chosen, ListKept, Doing, TypeOK, FileCall
  <2> QED
    BY <2>1, <2>2, <2>3
<1>14. CASE GetChoiceFails
  <2> USE <1>14 DEF GetChoiceFails
  <2>1. TypeOK'
    BY DEF TypeOK, WidgetCall, FileCall, Held
  <2>2. HeldHere' /\ Doing'
    BY DEF HeldHere, Doing, TypeOK, WidgetCall, FileCall, Held
  <2>3. Listed' /\ Chosen' /\ ListKept'
    BY DEF Listed, Prefix, Chosen, ListKept, Doing, TypeOK, FileCall
  <2> QED
    BY <2>1, <2>2, <2>3
<1>15. CASE AllChoices
  <2> USE <1>15 DEF AllChoices
  <2>1. TypeOK'
    BY DEF TypeOK, WidgetCall, FileCall, Held
  <2>2. HeldHere' /\ Doing'
    BY DEF HeldHere, Doing, TypeOK, WidgetCall, FileCall, Held
  <2>3. Listed' /\ Chosen' /\ ListKept'
    BY DEF Listed, Prefix, Chosen, ListKept, Doing, TypeOK, FileCall
  <2> QED
    BY <2>1, <2>2, <2>3
<1>16. CASE Open
  <2> USE <1>16 DEF Open
  <2>1. TypeOK'
    BY DEF TypeOK, WidgetCall, FileCall, Held
  <2>2. HeldHere' /\ Doing'
    BY DEF HeldHere, Doing, TypeOK, WidgetCall, FileCall, Held
  <2>3. Listed' /\ Chosen' /\ ListKept'
    BY DEF Listed, Prefix, Chosen, ListKept, Doing, TypeOK, FileCall
  <2> QED
    BY <2>1, <2>2, <2>3
<1>17. CASE OpenFails
  <2> USE <1>17 DEF OpenFails
  <2>1. TypeOK'
    BY DEF TypeOK, WidgetCall, FileCall, Held
  <2>2. HeldHere' /\ Doing'
    BY DEF HeldHere, Doing, TypeOK, WidgetCall, FileCall, Held
  <2>3. Listed' /\ Chosen' /\ ListKept'
    BY DEF Listed, Prefix, Chosen, ListKept, Doing, TypeOK, FileCall
  <2> QED
    BY <2>1, <2>2, <2>3
<1>18. CASE NewFile
  <2> USE <1>18 DEF NewFile
  <2>1. TypeOK'
    BY DEF TypeOK, WidgetCall, FileCall, Held
  <2>2. HeldHere' /\ Doing'
    BY DEF HeldHere, Doing, TypeOK, WidgetCall, FileCall, Held
  <2>3. Listed' /\ Chosen' /\ ListKept'
    BY DEF Listed, Prefix, Chosen, ListKept, Doing, TypeOK, FileCall
  <2> QED
    BY <2>1, <2>2, <2>3
<1>19. CASE NewFileFails
  <2> USE <1>19 DEF NewFileFails
  <2>1. TypeOK'
    BY DEF TypeOK, WidgetCall, FileCall, Held
  <2>2. HeldHere' /\ Doing'
    BY DEF HeldHere, Doing, TypeOK, WidgetCall, FileCall, Held
  <2>3. Listed' /\ Chosen' /\ ListKept'
    BY DEF Listed, Prefix, Chosen, ListKept, Doing, TypeOK, FileCall
  <2> QED
    BY <2>1, <2>2, <2>3
<1>20. CASE Fetch
  <2> USE <1>20 DEF Fetch
  <2>0. success' \in BOOLEAN
    OBVIOUS
  <2>1. TypeOK'
    BY <2>0 DEF TypeOK, WidgetCall, FileCall, Held
  <2>2. HeldHere' /\ Doing'
    BY DEF HeldHere, Doing, TypeOK, WidgetCall, FileCall, Held
  <2>3. Listed' /\ Chosen' /\ ListKept'
    BY DEF Listed, Prefix, Chosen, ListKept, Doing, TypeOK, FileCall
  <2> QED
    BY <2>1, <2>2, <2>3
<1>21. CASE FetchFails
  <2> USE <1>21 DEF FetchFails
  <2>1. TypeOK'
    BY DEF TypeOK, WidgetCall, FileCall, Held
  <2>2. HeldHere' /\ Doing'
    BY DEF HeldHere, Doing, TypeOK, WidgetCall, FileCall, Held
  <2>3. Listed' /\ Chosen' /\ ListKept'
    BY DEF Listed, Prefix, Chosen, ListKept, Doing, TypeOK, FileCall
  <2> QED
    BY <2>1, <2>2, <2>3
<1>22. CASE Close
  <2> USE <1>22 DEF Close
  <2>1. TypeOK'
    BY DEF TypeOK, WidgetCall, FileCall, Held
  <2>2. HeldHere' /\ Doing'
    BY DEF HeldHere, Doing, TypeOK, WidgetCall, FileCall, Held
  <2>3. Listed' /\ Chosen' /\ ListKept'
    BY DEF Listed, Prefix, Chosen, ListKept, Doing, TypeOK, FileCall
  <2> QED
    BY <2>1, <2>2, <2>3
<1>23. CASE FreeFile
  <2> USE <1>23 DEF FreeFile
  <2>1. TypeOK'
    BY DEF TypeOK, WidgetCall, FileCall, Held
  <2>2. HeldHere' /\ Doing'
    BY DEF HeldHere, Doing, TypeOK, WidgetCall, FileCall, Held
  <2>3. Listed' /\ Chosen' /\ ListKept'
    BY DEF Listed, Prefix, Chosen, ListKept, Doing, TypeOK, FileCall
  <2> QED
    BY <2>1, <2>2, <2>3
<1> QED
  BY <1>1, <1>2, <1>3, <1>4, <1>5, <1>6, <1>7, <1>8, <1>9, <1>10, <1>11, <1>12, <1>13,
     <1>14, <1>15, <1>16, <1>17, <1>18, <1>19, <1>20, <1>21, <1>22, <1>23
     DEF Helper

\* What an operation does with what its helper returned.
LEMMA ReturnStep ==
  ASSUME IInv, Return
  PROVE  IInv'
<1> USE DEF IInv, Returns, Calls, InList, camera, held, work, answer, history
<1>1. CASE HelperReturns
  <2> USE <1>1 DEF HelperReturns
  <2>1. TypeOK'
    BY DEF TypeOK, WidgetCall, FileCall, Held
  <2>2. HeldHere' /\ Doing'
    BY DEF HeldHere, Doing, TypeOK, WidgetCall, FileCall, Held
  <2>3. Listed' /\ Chosen' /\ ListKept'
    BY DEF Listed, Prefix, Chosen, ListKept, Doing, TypeOK, FileCall
  <2> QED
    BY <2>1, <2>2, <2>3
<1>2. CASE ExposureReturns
  <2> USE <1>2 DEF ExposureReturns
  <2>1. TypeOK'
    BY DEF TypeOK, WidgetCall, FileCall, Held
  <2>2. HeldHere' /\ Doing'
    BY DEF HeldHere, Doing, TypeOK, WidgetCall, FileCall, Held
  <2>3. Listed' /\ Chosen' /\ ListKept'
    BY DEF Listed, Prefix, Chosen, ListKept, Doing, TypeOK, FileCall
  <2> QED
    BY <2>1, <2>2, <2>3
<1>3. CASE TimesReturn
  <2> USE <1>3 DEF TimesReturn
  <2>1. TypeOK'
    BY DEF TypeOK, WidgetCall, FileCall, Held
  <2>2. HeldHere' /\ Doing'
    BY DEF HeldHere, Doing, TypeOK, WidgetCall, FileCall, Held
  <2>3. Listed' /\ Chosen' /\ ListKept'
    BY DEF Listed, Prefix, Chosen, ListKept, Doing, TypeOK, FileCall
  <2> QED
    BY <2>1, <2>2, <2>3
<1>4. CASE Throws
  <2> USE <1>4 DEF Throws
  <2>1. TypeOK'
    BY DEF TypeOK, WidgetCall, FileCall, Held
  <2>2. HeldHere' /\ Doing'
    BY DEF HeldHere, Doing, TypeOK, WidgetCall, FileCall, Held
  <2>3. Listed' /\ Chosen' /\ ListKept'
    BY DEF Listed, Prefix, Chosen, ListKept, Doing, TypeOK, FileCall
  <2> QED
    BY <2>1, <2>2, <2>3
<1>5. CASE ChoiceFound
  <2> USE <1>5 DEF ChoiceFound
  <2>1. TypeOK'
    BY DEF TypeOK, WidgetCall, FileCall, Held
  <2>2. HeldHere' /\ Doing'
    BY DEF HeldHere, Doing, TypeOK, WidgetCall, FileCall, Held
  <2>3. Listed' /\ Chosen' /\ ListKept'
    BY DEF Listed, Prefix, Chosen, ListKept, Doing, TypeOK, FileCall
  <2> QED
    BY <2>1, <2>2, <2>3
<1>6. CASE ChoiceMissing
  <2> USE <1>6 DEF ChoiceMissing
  <2>1. TypeOK'
    BY DEF TypeOK, WidgetCall, FileCall, Held
  <2>2. HeldHere' /\ Doing'
    BY DEF HeldHere, Doing, TypeOK, WidgetCall, FileCall, Held
  <2>3. Listed' /\ Chosen' /\ ListKept'
    BY DEF Listed, Prefix, Chosen, ListKept, Doing, TypeOK, FileCall
  <2> QED
    BY <2>1, <2>2, <2>3
<1> QED
  BY <1>1, <1>2, <1>3, <1>4, <1>5, <1>6
     DEF Return

\* Every step preserves the invariant.
LEMMA InvStep ==
  ASSUME IInv, [Next]_vars
  PROVE  IInv'
<1>1. CASE CameraChanges
  BY <1>1, CallsAssumption
     DEF CameraChanges, held, work, answer, history, IInv, TypeOK, HeldHere, Doing, Listed,
         Prefix, Chosen, ListKept
<1>2. CASE UNCHANGED vars
  BY <1>2
     DEF vars, camera, held, work, answer, history, IInv, TypeOK, HeldHere, Doing, Listed,
         Prefix, Chosen, ListKept
<1> QED
  BY <1>1, <1>2, BeginStep, HelperStep, ReturnStep DEF Next

\* What is held at each call, and how the list is read, in every reachable state.
THEOREM Invariance == Spec => []IInv
BY InvInit, InvStep, PTL DEF Spec

\* Nothing is leaked, used or released when it is not held.
THEOREM ReleasedOnce == Spec => []NoneLeaked
<1>1. IInv => NoneLeaked
  BY DEF IInv, HeldHere, NoneLeaked, TypeOK, WidgetCall, FileCall, Held
<1> QED
  BY <1>1, Invariance, PTL

\* setExposureTime() sets the choice asked for.
THEOREM ChoiceKept == Spec => []ListKept
<1>1. IInv => ListKept
  BY DEF IInv
<1> QED
  BY <1>1, Invariance, PTL
=============================================================================
