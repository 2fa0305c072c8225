----------------------------- MODULE CameraCalls -----------------------------
(***************************************************************************)
(* The operations of CameraWrapper that read and set the camera's settings   *)
(* and fetch a picture, call by call: each call of libgphoto2 may fail, and   *)
(* what was acquired by then (a widget, a FILE, a CameraFile) is to be        *)
(* released on every way out.  All of it is local to one execution of one     *)
(* operation, so a single caller stands for the threads that may call them   *)
(* together.                                                               *)
(*                                                                         *)
(* A text is what stoi() makes of it: the number it begins with, or NoNumber *)
(* when it throws; Empty is the empty one.  Setting, menu and the camera's   *)
(* answers are external.                                                    *)
(***************************************************************************)
EXTENDS Integers, Sequences

CONSTANTS
  Numbers,              \* numbers that texts begin with; -1 is BULB
  NoNumber, Empty,
  Menus,                \* the lists of choices the camera may offer
  Indexes               \* of setExposureTime()

Text == Numbers \cup {NoNumber, Empty}

ASSUME CallsAssumption ==
  /\ Numbers \subseteq Int /\ Indexes \subseteq Int
  /\ NoNumber \notin Int /\ Empty \notin Int /\ NoNumber # Empty
  /\ Menus \subseteq Seq(Text)

VARIABLES
  setting, menu,   \* the camera's: what the setting is, and what it may be
  task,            \* the operation
  doing,           \* the helper it is in: "get", "set", "list" or "download"
  pc,              \* the call it makes next
  widget, stream, file,    \* "unset", "held" or "freed"; a stream is "null" if not opened
  copy,            \* setting and menu as the widget holds them
  value,           \* value, value_str
  index,
  choices,
  n,               \* gp_widget_count_choices()
  success,         \* what the operation returned, if it returns that
  times,           \* and the exposure times it returned
  offered,         \* history: the menu listed
  put              \* history: what this operation has set the camera to

camera == <<setting, menu>>
held == <<widget, stream, file>>
work == <<copy, value, index, choices, n>>
answer == <<success, times>>
history == <<offered, put>>
vars == <<camera, task, doing, pc, held, work, answer, history>>

Init ==
  /\ setting \in Text /\ menu \in Menus
  /\ task = "none" /\ doing = "none" /\ pc = "idle"
  /\ widget = "unset" /\ stream = "unset" /\ file = "unset"
  /\ copy = [setting |-> Empty, menu |-> << >>]
  /\ value = Empty /\ index = 0 /\ choices = << >> /\ n = 0
  /\ success = FALSE /\ times = << >>
  /\ offered = << >> /\ put = << >>

----------------------------------------------------------------------------
(* An operation begins.                                                    *)

Begins(t, helper, call, text, k) ==
  /\ pc = "idle"
  /\ task' = t /\ doing' = helper /\ pc' = call
  /\ widget' = "unset" /\ stream' = "unset" /\ file' = "unset"
  /\ value' = text /\ index' = k /\ choices' = << >> /\ n' = 0
  /\ success' = FALSE /\ times' = << >>
  /\ offered' = << >> /\ put' = << >>
  /\ UNCHANGED <<camera, copy>>

getSerialNumber == Begins("serial", "get", "config", Empty, 0)
getCurrentExposureTime == Begins("exposure", "get", "config", Empty, 0)
setConfigValue(text) == Begins("set", "set", "config", text, 0)
setExposureTime(k) == Begins("setExposure", "list", "config", Empty, k)
listAvailableExposureTimes == Begins("times", "list", "config", Empty, 0)
downloadFile == Begins("download", "download", "open", Empty, 0)

Calls(from, to) ==
  /\ pc = from
  /\ pc' = to
  /\ UNCHANGED <<camera, task>>

----------------------------------------------------------------------------
(* gp_camera_get_single_config() and gp_widget_free(), common to all.      *)

GetConfig ==
  /\ Calls("config", CASE doing = "get" -> "value"
                       [] doing = "set" -> "type"
                       [] doing = "list" -> "count")
  /\ widget' = "held"
  /\ copy' = [setting |-> setting, menu |-> menu]
  /\ UNCHANGED <<doing, stream, file, value, index, choices, n, answer, history>>

\* The helper returns what it has so far; there is nothing to free.
GetConfigFails ==
  /\ Calls("config", "helped")
  /\ UNCHANGED <<doing, held, work, answer, history>>

\* out:
FreeWidget ==
  /\ Calls("out", "helped")
  /\ widget' = "freed"
  /\ UNCHANGED <<doing, stream, file, work, answer, history>>

----------------------------------------------------------------------------
(* getTextConfigValue().                                                   *)

GetValue ==
  /\ Calls("value", "out")
  /\ value' = copy.setting
  /\ UNCHANGED <<doing, held, copy, index, choices, n, answer, history>>

GetValueFails ==
  /\ Calls("value", "out")
  /\ UNCHANGED <<doing, held, work, answer, history>>

----------------------------------------------------------------------------
(* setConfigValue().                                                       *)

\* gp_widget_get_type(): a menu, a radio or a text.
GetType ==
  /\ Calls("type", "setValue")
  /\ UNCHANGED <<doing, held, work, answer, history>>

\* gp_widget_get_type() fails, or the type is another one.
BadType ==
  /\ Calls("type", "out")
  /\ UNCHANGED <<doing, held, work, answer, history>>

SetValue ==
  /\ Calls("setValue", "setConfig")
  /\ copy' = [copy EXCEPT !.setting = value]
  /\ UNCHANGED <<doing, held, value, index, choices, n, answer, history>>

\* Fault: the error is returned at once.
SetValueReturns ==
  /\ Calls("setValue", "helped")
  /\ UNCHANGED <<doing, held, work, answer, history>>

SetValueFails ==
  /\ Calls("setValue", "out")
  /\ UNCHANGED <<doing, held, work, answer, history>>

\* gp_camera_set_single_config(): the camera takes the setting over.
SetConfig ==
  /\ pc = "setConfig" /\ pc' = "out"
  /\ setting' = copy.setting
  /\ put' = <<copy.setting>>
  /\ success' = TRUE
  /\ UNCHANGED <<menu, task, doing, held, work, times, offered>>

SetConfigFails ==
  /\ Calls("setConfig", "out")
  /\ UNCHANGED <<doing, held, work, answer, history>>

----------------------------------------------------------------------------
(* listConfigChoices().                                                    *)

\* gp_widget_count_choices(); an error is a number below zero, and no choice is read.
CountChoices ==
  /\ Calls("count", "choice")
  /\ n' \in {-1, Len(copy.menu)}
  /\ offered' = copy.menu
  /\ UNCHANGED <<doing, held, copy, value, index, choices, answer, put>>

GetChoice ==
  /\ Calls("choice", "choice")
  /\ Len(choices) < n
  /\ choices' = Append(choices, copy.menu[Len(choices) + 1])
  /\ UNCHANGED <<doing, held, copy, value, index, n, answer, history>>

\* Fault: a choice that cannot be read is left out.
GetChoiceSkips ==
  /\ Calls("choice", "choice")
  /\ Len(choices) < n
  /\ copy' = [copy EXCEPT !.menu = SubSeq(@, 1, Len(choices))
                                    \o SubSeq(@, Len(choices) + 2, Len(@))]
  /\ n' = n - 1
  /\ UNCHANGED <<doing, held, value, index, choices, answer, history>>

\* The list ends at the first choice that cannot be read.
GetChoiceFails ==
  /\ Calls("choice", "out")
  /\ Len(choices) < n
  /\ UNCHANGED <<doing, held, work, answer, history>>

AllChoices ==
  /\ Calls("choice", "out")
  /\ Len(choices) >= n
  /\ UNCHANGED <<doing, held, work, answer, history>>

----------------------------------------------------------------------------
(* What the operations do with what their helper returned.                 *)

\* exposureTimeFromString(), in steps of a text's number; BULB is -1.
exposureTimeFromString(text) == IF text * 100 = -100 THEN 0 ELSE text * 100

Returns == Calls("helped", "idle")

\* The serial number, the setting and its success need nothing more.
HelperReturns ==
  /\ doing \in {"get", "set"} /\ task # "exposure"
  /\ Returns
  /\ UNCHANGED <<doing, held, work, answer, history>>

\* getCurrentExposureTime(): -1 for an empty text.
ExposureReturns ==
  /\ task = "exposure"
  /\ Returns
  /\ value # NoNumber
  /\ times' = << IF value = Empty THEN -1 ELSE exposureTimeFromString(value) >>
  /\ UNCHANGED <<doing, held, work, success, history>>

\* listAvailableExposureTimes().
TimesReturn ==
  /\ task = "times"
  /\ Returns
  /\ \A k \in DOMAIN choices : choices[k] \in Numbers
  /\ times' = [k \in DOMAIN choices |-> exposureTimeFromString(choices[k])]
  /\ UNCHANGED <<doing, held, work, success, history>>

\* stoi() throws, out of the operation; of an empty text too, but for the one
\* getCurrentExposureTime() looks at first.
Throws ==
  /\ \/ task = "exposure" /\ value = NoNumber
     \/ task = "times" /\ \E k \in DOMAIN choices : choices[k] \notin Numbers
  /\ Returns
  /\ UNCHANGED <<doing, held, work, answer, history>>

InList == index >= 0 /\ index < Len(choices)

\* setExposureTime() sets the choice with that index, which asks for the widget again.
ChoiceFound ==
  /\ task = "setExposure" /\ doing = "list"
  /\ Calls("helped", "config")
  /\ InList
  /\ doing' = "set" /\ value' = choices[index + 1]
  /\ widget' = "unset"
  /\ UNCHANGED <<stream, file, copy, index, choices, n, answer, history>>

ChoiceMissing ==
  /\ task = "setExposure" /\ doing = "list"
  /\ Returns
  /\ ~InList
  /\ UNCHANGED <<doing, held, work, answer, history>>

----------------------------------------------------------------------------
(* downloadFile().                                                         *)

\* fopen().
Open ==
  /\ Calls("open", "newFile")
  /\ stream' = "held"
  /\ UNCHANGED <<doing, widget, file, work, answer, history>>

OpenFails ==
  /\ Calls("open", "close")
  /\ stream' = "null"
  /\ UNCHANGED <<doing, widget, file, work, answer, history>>

\* fileno() and gp_file_new_from_fd().
NewFile ==
  /\ Calls("newFile", "fetch")
  /\ file' = "held"
  /\ UNCHANGED <<doing, widget, stream, work, answer, history>>

NewFileFails ==
  /\ Calls("newFile", "close")
  /\ UNCHANGED <<doing, held, work, answer, history>>

\* gp_camera_file_get().
Fetch ==
  /\ Calls("fetch", "close")
  /\ success' = TRUE
  /\ UNCHANGED <<doing, held, work, times, history>>

FetchFails ==
  /\ Calls("fetch", "close")
  /\ UNCHANGED <<doing, held, work, answer, history>>

\* out: fclose() if it was opened.
Close ==
  /\ Calls("close", "freeFile")
  /\ stream' = IF stream = "null" THEN "null" ELSE "freed"
  /\ UNCHANGED <<doing, widget, file, work, answer, history>>

\* And gp_file_free() if gp_file_created.
FreeFile ==
  /\ Calls("freeFile", "idle")
  /\ file' = IF file = "held" THEN "freed" ELSE file
  /\ UNCHANGED <<doing, widget, stream, work, answer, history>>

----------------------------------------------------------------------------

\* The camera's user turns its dials; what it offers may change with them.
CameraChanges ==
  /\ setting' \in Text /\ menu' \in Menus
  /\ UNCHANGED <<task, doing, pc, held, work, answer, history>>

Operation ==
  \/ getSerialNumber \/ getCurrentExposureTime \/ listAvailableExposureTimes \/ downloadFile
  \/ \E text \in Text : setConfigValue(text)
  \/ \E k \in Indexes : setExposureTime(k)

Helper ==
  \/ GetConfig \/ GetConfigFails \/ FreeWidget
  \/ GetValue \/ GetValueFails
  \/ GetType \/ BadType \/ SetValue \/ SetValueFails \/ SetConfig \/ SetConfigFails
  \/ CountChoices \/ GetChoice \/ GetChoiceFails \/ AllChoices
  \/ Open \/ OpenFails \/ NewFile \/ NewFileFails \/ Fetch \/ FetchFails \/ Close \/ FreeFile

Return ==
  \/ HelperReturns \/ ExposureReturns \/ TimesReturn \/ Throws
  \/ ChoiceFound \/ ChoiceMissing

Next == Operation \/ Helper \/ Return \/ CameraChanges

Spec == Init /\ [][Next]_vars

----------------------------------------------------------------------------
(* Properties.                                                             *)

\* Whatever fails, and when stoi() throws: a widget, a FILE or a CameraFile is used
\* and released only while it is held, so never twice, and none is held when the
\* operation is left.
NoneLeaked ==
  /\ pc \in {"value", "type", "setValue", "setConfig", "count", "choice", "out"} =>
       widget = "held"
  /\ pc \in {"newFile", "fetch"} => stream = "held"
  /\ pc = "fetch" => file = "held"
  /\ pc = "close" => stream \in {"held", "null"}
  /\ pc \in {"config", "helped", "idle"} =>
       widget # "held" /\ stream # "held" /\ file # "held"

\* However the listing fails, setExposureTime() sets nothing but the choice with that
\* index in the camera's list, and the exposure times listed are those of the list's
\* first choices.
ListKept ==
  /\ task = "setExposure" /\ success =>
       /\ index + 1 \in DOMAIN offered
       /\ put = <<offered[index + 1]>>
  /\ task = "times" =>
       \A k \in DOMAIN times : times[k] = exposureTimeFromString(offered[k])
=============================================================================
