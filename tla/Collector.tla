----------------------------- MODULE Collector -----------------------------
(***************************************************************************)
(* The fixture collector, cmd/collect/main.go: a script of CLI inputs in   *)
(* several modes.  Three parties have an idea of the mode: the switch is   *)
(* in one, scrapligo keeps the one it believes the session to be in, and   *)
(* the collector keeps col.mode.  An error of one input is logged and the  *)
(* script goes on.  What is captured and where it is written is left out.  *)
(*                                                                         *)
(* External: the switch, and scrapligo, which compares the requested mode  *)
(* with the believed one and looks at the prompt only when they differ     *)
(* (fixtures/aoss/scrapli.log:431-573).                                    *)
(***************************************************************************)
EXTENDS Naturals, Sequences

CONSTANTS Rejected,   \* what the switch does not accept of {"vlan", "interface"}
          Timeouts    \* TRUE if a change of the mode may run into the timeout

VARIABLES at,         \* the next step of the script
          mode,       \* col.mode
          believed,   \* the mode scrapligo believes the session to be in
          level,      \* where the session is on the switch
          sent        \* the input sent last: for which mode, and where it went

vars == <<at, mode, believed, level, sent>>

Config == {"config", "vlan", "eth"}

Level == Config \union {"exec", "operator", "gone"}

Modes == {"privileged_exec", "configuration"}

-----------------------------------------------------------------------------
(* The sections, in the order of main                                      *)

Enter(m) == [call |-> "enterMode", input |-> "", mode |-> m]
Send(input, m) == [call |-> "send", input |-> input, mode |-> m]
SendSoft(input, m) == [call |-> "sendSoft", input |-> input, mode |-> m]

Version == <<Send("show", "")>>

ModesSection ==
    <<Enter("privileged_exec"), Enter("configuration"), Enter("privileged_exec")>>

ConfigSessions ==
    <<Enter("configuration"),
      Send("vlan", "configuration"), Send("exit", "configuration"),
      Send("interface", "configuration"), Send("exit", "configuration"),
      Enter("privileged_exec")>>

ErrorStrings ==
    <<SendSoft("bad", ""), Enter("configuration"),
      SendSoft("bad", "configuration"), Enter("privileged_exec")>>

(* The other inputs, of runningConfig and shows, and the save of restore.  *)
Rest == <<Send("show", ""), Send("write memory", "")>>

Script == Version \o ModesSection \o ConfigSessions \o ErrorStrings \o Rest

Init ==
    /\ at = 1
    /\ mode = ""
    /\ believed = "privileged_exec"
    /\ level = "exec"
    /\ sent = [meant |-> "privileged_exec", where |-> "exec"]

-----------------------------------------------------------------------------
(* The switch and scrapligo                                                *)

(* The mode whose prompt pattern the prompt of level l matches; that of an *)
(* operator, `idf02>`, matches the pattern of privileged_exec.             *)
PromptMode(l) == IF l \in Config THEN "configuration" ELSE "privileged_exec"

(* Where `config terminal` and `end` lead.                                 *)
Led(m, l) ==
    IF PromptMode(l) = m \/ l \in {"operator", "gone"} THEN l
    ELSE IF m = "configuration" THEN "config" ELSE "exec"

(* EnterMode: it looks at the prompt and changes the mode if need be.  It  *)
(* may time out before the change or after it, and it fails if the session *)
(* is closed.                                                              *)
EnterOutcomes(m) ==
    LET failed(l) == [ok |-> FALSE, level |-> l, believed |-> believed]
        led(l) == [ok |-> PromptMode(l) = m, level |-> l, believed |-> PromptMode(l)]
        after == Led(m, level)
    IN  IF level = "gone" THEN {failed(level)}
        ELSE {led(after)} \union
             (IF Timeouts THEN {failed(level), failed(after)} ELSE {})

(* Where an input may lead.  `exit` leaves a VLAN or an interface, then    *)
(* the configuration, then the manager, and then the switch.               *)
Leads(input, l) ==
    CASE input = "vlan" /\ l \in Config -> {IF "vlan" \in Rejected THEN l ELSE "vlan"}
      [] input = "interface" /\ l \in Config -> {IF "interface" \in Rejected THEN l ELSE "eth"}
      [] input = "exit" /\ l \in {"vlan", "eth"} -> {"config"}
      [] input = "exit" /\ l = "config" -> {"exec"}
      [] input = "exit" /\ l = "exec" -> {"operator", "gone"}
      [] input = "exit" /\ l = "operator" -> {"gone"}
      [] OTHER -> {l}

-----------------------------------------------------------------------------
(* The calls                                                               *)

Step == Script[at]

(* enterMode: nothing if col.mode is the mode, and only a log line if      *)
(* EnterMode fails.                                                        *)
EnterMode ==
    /\ Step.call = "enterMode"
    /\ IF Step.mode = mode
       THEN UNCHANGED <<mode, believed, level>>
       ELSE \E o \in EnterOutcomes(Step.mode) :
                /\ level' = o.level
                /\ believed' = o.believed
                /\ mode' = IF o.ok THEN Step.mode ELSE mode
    /\ UNCHANGED sent

Requested == IF Step.mode = "" THEN "privileged_exec" ELSE Step.mode

(* The input reaches the session, and its answer may get lost.             *)
Deliver(from, belief) ==
    /\ sent' = [meant |-> Requested, where |-> from]
    /\ level' \in Leads(Step.input, from)
    /\ believed' = belief

(* SendInput, in the requested mode.                                       *)
SendInput ==
    \/ believed = Requested /\ Deliver(level, believed)
    \/ /\ believed # Requested
       /\ \E o \in EnterOutcomes(Requested) :
            IF o.ok THEN Deliver(o.level, o.believed)
            ELSE level' = o.level /\ believed' = o.believed /\ UNCHANGED sent

(* send sets col.mode before the input is sent; sendSoft does not.         *)
SendStep ==
    /\ Step.call \in {"send", "sendSoft"}
    /\ SendInput
    /\ mode' = IF Step.call = "send" /\ Step.mode # "" THEN Step.mode ELSE mode

Next ==
    /\ at <= Len(Script)
    /\ EnterMode \/ SendStep
    /\ at' = at + 1

Spec == Init /\ [][Next]_vars

-----------------------------------------------------------------------------

(* An input reaches the switch only in the mode that it is meant for, also *)
(* when an input before it failed.                                         *)
SentInItsMode ==
    sent.where \in (IF sent.meant = "configuration" THEN Config ELSE {"exec"})
=============================================================================
