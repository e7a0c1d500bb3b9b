------------------------------- MODULE Shell -------------------------------
(***************************************************************************)
(* The shell (shell.rs over tower-shell-core): a tree of commands, the     *)
(* persisted settings, and two transports that run its handlers on one     *)
(* store.  The console's task answers from a single window of the output;  *)
(* a radio reply pages the whole output out by running the handler again   *)
(* for every window, and other tasks run while each window is on its way.  *)
(*                                                                         *)
(* Text is a sequence of characters, of which only the width in bytes and  *)
(* the identity matter; a handler writes it in pieces.                     *)
(***************************************************************************)
EXTENDS Integers, SequencesExt

CONSTANTS
  Base, App,  (* BASE_ROOT and the app's tree: the paths of the menus and *)
              (* of the commands of each                                  *)
  Table,      (* the settings, base then app: a sequence of names         *)
  Default,    (* what each reads as while it is unset                     *)
  Offered,    (* the values a host tries for each                         *)
  Accepted,   (* and those that encode_value takes                        *)
  Hints,      (* the values that completion offers: choices, true and     *)
              (* false, auto and random                                   *)
  Width,      (* the widths, in bytes, of the characters of each value    *)
  Uid,        (* unique_id32: the address of the device itself            *)
  Random,     (* the addresses rand_u32 may give                          *)
  RespCap,    (* RESP_CAP                                                 *)
  MaxTokens,  (* MAX_TOKENS                                               *)
  Paths,      (* the paths a host tries                                   *)
  Unset       (* no value stored                                          *)

(* A window is as wide as any character, and every name is text.           *)
ASSUME ShellConstants ==
  /\ UNION {Base["menus"], Base["commands"], App["menus"], App["commands"], Paths} \subseteq Seq(STRING)
  /\ RespCap \in Nat /\ RespCap >= 4
  /\ \A v \in DOMAIN Width : Width[v] \in Seq(1..4)
  /\ Uid # "auto" /\ "auto" \notin Random
  /\ Table \in Seq(STRING)

VARIABLES
  store,   (* what is stored for each setting                             *)
  usb,     (* shell_rx_task: the answer on its way                        *)
  stream,  (* stream_line: the reply on its way                           *)
  touched  (* history: the store changed since the reply began            *)

shellVars == <<store, usb, stream, touched>>

Settings == ToSet(Table)

-----------------------------------------------------------------------------
(* The tree. *)

Entries(kind) == Base[kind] \cup App[kind]

(* The menu a path leads into, as far as it leads: both trees are merged   *)
(* at every level, and a menu hides a command of its name.                 *)
MenuDepth(path) ==
  CHOOSE d \in 0..Len(path) :
    /\ \A e \in 1..d : SubSeq(path, 1, e) \in Entries("menus")
    /\ d = Len(path) \/ SubSeq(path, 1, d + 1) \notin Entries("menus")

(* The entry after it. *)
Step(path) == SubSeq(path, 1, MenuDepth(path) + 1)

Found(path, commands) ==
  CASE MenuDepth(path) = Len(path) -> [is |-> "menu", path |-> path]
    [] MenuDepth(path) < Len(path) /\ Step(path) \in commands ->
         [is |-> "command", path |-> Step(path)]
    [] OTHER -> [is |-> "none", path |-> path]

(* A walk that leaves the app's tree where the base tree leads on.         *)
ResolveUnmerged(path) ==
  Found(path, Base["commands"] \cup
                {c \in App["commands"] : Front(c) \notin Base["menus"]})

(* resolve: a menu, a command with its arguments after it, or nothing.     *)
Resolve(path) == Found(path, Entries("commands"))

(* The names in a menu. *)
Children(path) ==
  {Last(q) : q \in {p \in Entries("menus") \cup Entries("commands") :
                       p # <<>> /\ Front(p) = path}}

(* complete: the names in a menu, the settings a command takes, or the     *)
(* values of one that has a name for each.                                 *)
Completions(path, name) ==
  LET r == Resolve(path)
      cmd == IF r.is = "command" THEN Last(r.path) ELSE "none"
  IN CASE r.is = "menu" -> Children(path)
       [] cmd = "set" /\ name \in Settings -> Hints[name]
       [] cmd \in {"set", "get"} /\ name \notin Settings -> Settings
       [] OTHER -> {}

-----------------------------------------------------------------------------
(* The settings. *)

IsAddr(s) == s = "addr"

(* A setting accepts its default, and what completion offers for it; the   *)
(* address accepts what is drawn for `random`; and what can be read of a   *)
(* setting is text.                                                        *)
ASSUME SettingsConstants ==
  /\ "none" \notin Settings /\ Random # {}
  /\ \A s \in Settings :
       /\ Unset \notin Accepted[s]
       /\ IF IsAddr(s) THEN {"auto"} \cup Random \subseteq Accepted[s]
                       ELSE Default[s] \in Accepted[s]
       /\ Hints[s] \subseteq Accepted[s] \cup (IF IsAddr(s) THEN {"random"} ELSE {})
       /\ Accepted[s] \cup {Uid} \subseteq DOMAIN Width

(* encode_value; `auto` is stored as a zero of its own. *)
Encoded(s, v) == IF v \in Accepted[s] THEN v ELSE Unset

(* read_value: an address reads as the one in use.                         *)
ReadValue(st, s) ==
  IF IsAddr(s)
  THEN IF st[s] \in {Unset, "auto"} THEN Uid ELSE st[s]
  ELSE IF st[s] = Unset THEN Default[s] ELSE st[s]

(* An export of what is read. *)
ExportRead(st, s) == ReadValue(st, s)

(* write_setting, for an export: an address that is not set stays `auto`.  *)
ExportValue(st, s) ==
  IF IsAddr(s) /\ st[s] \in {Unset, "auto"} THEN "auto" ELSE ReadValue(st, s)

-----------------------------------------------------------------------------
(* Output and its windows. *)

Chars(v) == [i \in DOMAIN Width[v] |-> [of |-> v, at |-> i, width |-> Width[v][i]]]

(* What stands around a value on its line, and what a short answer says.   *)
Literal(s, at) == <<[of |-> s, at |-> at, width |-> 1]>>

Bytes(text) == FoldLeft(LAMBDA n, c : n + c.width, 0, text)

(* write_setting: the pieces of a setting's line. *)
SettingLine(st, s, export) ==
  LET value == IF export THEN ExportValue(st, s) ELSE ReadValue(st, s)
  IN <<Literal(s, 0), Chars(value), Literal(s, 1)>>

Dump(st, export) == FlattenSeq([i \in DOMAIN Table |-> SettingLine(st, Table[i], export)])

(* The pieces a handler writes: all settings, one of them, or a word.      *)
Output(line, st) ==
  CASE Last(line.path) = "export" -> Dump(st, TRUE)
    [] Last(line.path) = "print"  -> Dump(st, FALSE)
    [] Last(line.path) = "get" /\ line.name \in Settings -> SettingLine(st, line.name, FALSE)
    [] OTHER                      -> <<Literal("ok", 0)>>

Window(skip) == [skip |-> skip, total |-> 0, captured |-> 0, out |-> <<>>]

Clamp(n, piece) == Max({0, Min({n, Bytes(piece)})})

(* The characters of a piece that lie between two of its bytes.            *)
Slice(piece, lo, hi) ==
  LET inside == {i \in DOMAIN piece : /\ Bytes(SubSeq(piece, 1, i - 1)) >= lo
                                      /\ Bytes(SubSeq(piece, 1, i)) <= hi}
  IN IF inside = {} THEN <<>> ELSE SubSeq(piece, Min(inside), Max(inside))

Taking(w, piece, lo, hi) ==
  LET seg == Slice(piece, lo, hi)
  IN [w EXCEPT !.total = @ + Bytes(piece), !.captured = @ + Bytes(seg), !.out = @ \o seg]

(* A window that takes what it has room for, wherever it ends.             *)
FeedRoom(w, piece) ==
  LET lo == Clamp(w.skip - w.total, piece)
  IN Taking(w, piece, lo, lo + RespCap - w.captured)

(* feed: what of a piece lies between skip and skip + cap, no more than    *)
(* there is room for, in whole characters.                                 *)
Feed(w, piece) ==
  LET lo == Clamp(w.skip - w.total, piece)
      hi == Clamp(w.skip + RespCap - w.total, piece)
  IN Taking(w, piece, lo, Min({hi, lo + RespCap - w.captured}))

Capture(pieces, skip) == FoldLeft(Feed, Window(skip), pieces)

More(w) == w.skip + w.captured < w.total

-----------------------------------------------------------------------------
(* The handlers: what each may do to the store, and its result. *)

Outcome(result, st, reboot) == [result |-> result, store |-> st, reboot |-> reboot]

(* settings_set: a value is stored, if it is valid and the store has room. *)
SetOutcomes(line, st) ==
  IF line.name \notin Settings THEN {Outcome("not_found", st, FALSE)}
  ELSE LET s == line.name
           values == IF IsAddr(s) /\ line.value = "random" THEN Random
                     ELSE {Encoded(s, line.value)} \ {Unset}
       IN IF values = {} THEN {Outcome("bad_arg", st, FALSE)}
          ELSE {Outcome("ok", [st EXCEPT ![s] = v], FALSE) : v \in values}
                 \cup {Outcome("storage", st, FALSE)}

Virgin == [s \in Settings |-> Unset]

Outcomes(line, st) ==
  CASE Last(line.path) = "set"    -> SetOutcomes(line, st)
    [] Last(line.path) = "get"    ->
         {Outcome(IF line.name \in Settings THEN "ok" ELSE "not_found", st, FALSE)}
    [] Last(line.path) = "reboot" -> {Outcome("ok", st, TRUE)}
    [] Last(line.path) = "wipe"   ->
         {IF line.value = "confirm" THEN Outcome("ok", Virgin, TRUE)
                                    ELSE Outcome("bad_arg", st, FALSE)}
    [] OTHER                      -> {Outcome("ok", st, FALSE)}

Known(line) == Len(line.path) <= MaxTokens /\ Resolve(line.path).is = "command"

Refusal(line) == IF Len(line.path) > MaxTokens THEN "bad_arg" ELSE "not_found"

-----------------------------------------------------------------------------
(* The console. *)

Quiet == [pc |-> "idle", result |-> "none", whole |-> TRUE, reboot |-> FALSE,
          offers |-> {}, asked |-> [path |-> <<>>, name |-> "none"]]

(* run_line_with: one window, and a result that says if it was too small.  *)
Command(line) ==
  /\ usb.pc = "idle"
  /\ IF Known(line)
     THEN \E o \in Outcomes(line, store) :
            LET w == Capture(Output(line, store), 0)
            IN /\ store' = o.store
               /\ usb' = [Quiet EXCEPT !.pc = "answer", !.reboot = o.reboot,
                            !.result = IF More(w) /\ o.result = "ok" THEN "truncated" ELSE o.result,
                            !.whole = w.out = FlattenSeq(Output(line, store))]
     ELSE store' = store /\ usb' = [Quiet EXCEPT !.pc = "answer", !.result = Refusal(line)]
  /\ touched' = (touched \/ store' # store)
  /\ UNCHANGED stream

Complete(path, name) ==
  /\ usb.pc = "idle"
  /\ usb' = [Quiet EXCEPT !.pc = "answer", !.offers = Completions(path, name),
                          !.asked = [path |-> path, name |-> name]]
  /\ UNCHANGED <<store, stream, touched>>

(* The answer is in the queue, or dropped with the console. *)
Answered ==
  /\ usb.pc = "answer"
  /\ usb' = IF usb.reboot THEN [usb EXCEPT !.pc = "flush"] ELSE Quiet
  /\ UNCHANGED <<store, stream, touched>>

-----------------------------------------------------------------------------
(* The radio. *)

Silent == [pc |-> "idle", line |-> [path |-> <<>>, name |-> "", value |-> ""],
           skip |-> 0, window |-> Window(0), sent |-> <<>>, result |-> "none",
           reboot |-> FALSE]

(* The handler runs for one window of its output. *)
Page(line, skip, sent) ==
  \E o \in Outcomes(line, store) :
    /\ store' = o.store
    /\ stream' = [pc |-> "push", line |-> line, skip |-> skip, sent |-> sent,
                  window |-> Capture(Output(line, store), skip),
                  result |-> o.result, reboot |-> o.reboot]

StreamLine(line) ==
  /\ stream.pc = "idle"
  /\ IF Known(line)
     THEN Page(line, 0, <<>>)
     ELSE store' = store /\ stream' = [Silent EXCEPT !.pc = "done", !.result = Refusal(line)]
  /\ touched' = FALSE
  /\ UNCHANGED usb

(* A window is out: the next, if there is more. *)
Pushed ==
  /\ stream.pc = "push"
  /\ LET sent == stream.sent \o stream.window.out
     IN IF More(stream.window)
        THEN Page(stream.line, stream.skip + stream.window.captured, sent)
        ELSE store' = store /\ stream' = [stream EXCEPT !.pc = "done", !.sent = sent]
  /\ UNCHANGED <<usb, touched>>

(* The reply is over, whole or not; the app resets if asked to.            *)
Over == stream.pc \in {"push", "done"} /\ ~stream.reboot

StreamOver ==
  /\ Over
  /\ stream' = Silent
  /\ UNCHANGED <<store, usb, touched>>

ShellReset ==
  /\ \/ usb.pc = "flush"
     \/ stream.pc \in {"push", "done"} /\ stream.reboot
  /\ usb' = Quiet /\ stream' = Silent /\ touched' = FALSE
  /\ UNCHANGED store

-----------------------------------------------------------------------------

Line == [path : Paths, name : Settings \cup {"none"},
         value : (UNION {Offered[s] : s \in Settings}) \cup {"confirm"}]

(* Arguments matter to three commands only. *)
Lines == {l \in Line :
            \/ l.path # <<>> /\ Last(l.path) \in {"set", "get"} /\ l.value # "confirm"
            \/ l.path # <<>> /\ Last(l.path) = "wipe" /\ l.name = "none"
            \/ l.name = "none" /\ l.value = "confirm"}

ShellInit == store = Virgin /\ usb = Quiet /\ stream = Silent /\ touched = FALSE

ShellNext ==
  \/ \E l \in Lines : Command(l) \/ StreamLine(l)
  \/ \E p \in Paths, n \in Settings \cup {"none"} : Complete(p, n)
  \/ Answered \/ Pushed \/ StreamOver \/ ShellReset

ShellSpec == ShellInit /\ [][ShellNext]_shellVars

(* An answer that says it is whole is: the console's only if its window    *)
(* held all of the output, and a paged reply, if nobody changed the store  *)
(* meanwhile, neither loses nor repeats a character, wherever the windows  *)
(* end (Window::feed, more, captured; run_line_with, stream_line).         *)
WholeIfSo ==
  /\ usb.result = "ok" => usb.whole
  /\ stream.pc = "done" /\ stream.line.path # <<>> /\ ~touched =>
       stream.sent = FlattenSeq(Output(stream.line, store))

(* Replaying an export gives back every setting as it was, and leaves the  *)
(* address of a device free if it was free here: no two devices get one    *)
(* address by sharing a configuration (write_setting, encode_value).       *)
ReplayKeeps ==
  \A s \in Settings :
    LET back == Encoded(s, ExportValue(store, s))
    IN /\ back # Unset
       /\ IsAddr(s) => back = IF store[s] = Unset THEN "auto" ELSE store[s]
       /\ ~IsAddr(s) => back = ReadValue(store, s)

(* What completion offers is accepted: a name in a menu leads on, a        *)
(* setting exists, and a value is one that `set` does not refuse (Args;    *)
(* complete against resolve, settings_set and encode_value).               *)
OffersAccepted ==
  LET asked == usb.asked
      inMenu == Resolve(asked.path).is = "menu"
  IN \A c \in usb.offers :
       /\ inMenu => Resolve(Append(asked.path, c)).is # "none"
       /\ ~inMenu /\ asked.name = "none" => c \in Settings
       /\ ~inMenu /\ asked.name # "none" =>
            \A o \in SetOutcomes([path |-> asked.path, name |-> asked.name, value |-> c], store) :
              o.result # "bad_arg"
=============================================================================
