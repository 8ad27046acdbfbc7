---------------------------- MODULE CaptureRelay ----------------------------
(***************************************************************************)
(* Output capture, internal/capture/relay.go, and the shell that uses it:  *)
(* everything a captured shell shows reaches the relay through a pipe, cut *)
(* into chunks anywhere; the adapter prints a marker into that stream, and *)
(* asks the relay over a socket to reset and for the output of a command   *)
(* that failed.  The pipe and the socket are not ordered with respect to   *)
(* each other, and a request that is not answered in time is handled late. *)
(*                                                                         *)
(* A symbol is a kind and the number of the command during which it was    *)
(* shown: the prompt, the echo of the typed line, text of the command, a   *)
(* name (text of the command that reads like the typed line: `make` prints *)
(* `make: ***`), the two parts of a sequence that the filters of           *)
(* appendLocked recognise (a control sequence, a credential), and the      *)
(* parts of the marker.                                                    *)
(***************************************************************************)
EXTENDS Naturals, FiniteSets, SequencesExt

CONSTANTS
  Shell,        \* "zsh" or "bash": the two adapters that use the relay
  MaxOutput,    \* MaxOutputBytes
  MarkerLength,
  MaxCommands,  \* bound: commands that are entered
  MaxPrint,     \* bound: symbols that one command prints
  MaxNames      \* bound: copies of the typed line among them

ASSUME CaptureAssumption ==
  /\ Shell \in {"zsh", "bash"}
  /\ MaxOutput \in Nat \ {0} /\ MarkerLength \in Nat \ {0}
  /\ MaxCommands \in Nat /\ MaxPrint \in Nat /\ MaxNames \in Nat

Symbol ==
  {"prompt", "echo", "text", "name", "head", "tail"} \X Nat \cup {"mark"} \X (1 .. MarkerLength)
Marker == [i \in 1 .. MarkerLength |-> <<"mark", i>>]

VARIABLES
  pc,       \* where the shell and its hooks are
  number,   \* the number of the current command
  failed,   \* it has failed
  pipe,     \* what was shown and has not reached the relay
  pending, output, active,  \* the fields of Relay
  late,     \* requests that the shell no longer waits for
  own,      \* history: what the current command has printed
  ref,      \* history: what has reached the relay since its last reset
  answer,   \* history: the answer to the last read
  disorder  \* history: a reset was not answered in time, or overtook a marker

relay == <<pending, output, active>>
vars == <<pc, number, failed, pipe, relay, late, own, ref, answer, disorder>>

-----------------------------------------------------------------------------
(***************************************************************************)
(* The relay.                                                              *)
(***************************************************************************)

\* The last n elements of a sequence.
LastOf(s, n) == IF Len(s) <= n THEN s ELSE SubSeq(s, Len(s) - n + 1, Len(s))

\* The elements of s at the positions in K, in order: the j-th comes from the
\* position that has j positions of K up to it.
At(s, K) ==
  [j \in 1 .. Cardinality(K) |-> s[CHOOSE k \in K : Cardinality({i \in K : i <= k}) = j]]

\* terminalText and redact.Text: a sequence of two parts is taken out when
\* both are in the value; of a first part alone, the control character is.
Filtered(s) ==
  At(s, {i \in DOMAIN s : /\ s[i][1] # "head"
                          /\ ~(s[i][1] = "tail" /\ i > 1 /\ s[i - 1][1] = "head")})

\* Mutant: the retained output is not cut to its limit.
Appended_NoLimit(out, value) == out \o Filtered(value)

\* appendLocked, while the relay is active.
Appended(out, value) == LastOf(out \o Filtered(value), MaxOutput)

\* The positions at which a marker begins.
MarkersIn(s) ==
  {i \in 1 .. (Len(s) - MarkerLength + 1) : SubSeq(s, i, i + MarkerLength - 1) = Marker}

AfterMarkers(s) ==
  IF MarkersIn(s) = {} THEN s
  ELSE SubSeq(s, Max(MarkersIn(s)) + MarkerLength, Len(s))

\* Mutant: a marker that is complete but for one symbol is not kept back.
KeepBack_Short == IF MarkerLength > 1 THEN MarkerLength - 2 ELSE 0

KeepBack == MarkerLength - 1

\* Feed.  A marker discards the output before it; a possible beginning of the
\* next marker is kept back.
FeedLocked(value) ==
  LET all == pending \o value
      rest == AfterMarkers(all)
      found == MarkersIn(all) # {}
      base == IF found THEN << >> ELSE output
      ready == IF Len(rest) <= KeepBack THEN 0 ELSE Len(rest) - KeepBack
  IN  /\ active' = (active \/ found)
      /\ output' = IF active' /\ ready > 0 THEN Appended(base, SubSeq(rest, 1, ready))
                   ELSE base
      /\ pending' = SubSeq(rest, ready + 1, Len(rest))

\* Mutant: a reset leaves the relay active.
Reset_StaysActive == pending' = << >> /\ output' = << >> /\ UNCHANGED active

Reset == pending' = << >> /\ output' = << >> /\ active' = FALSE

\* Mutant: what was kept back is not part of the answer.
Flushed_HoldsBack == output

Flushed == IF active /\ pending # << >> THEN Appended(output, pending) ELSE output

Snapshot ==
  /\ output' = Flushed
  /\ pending' = IF active THEN << >> ELSE pending
  /\ UNCHANGED active

\* TrimPrefix: the text of the command in front of the output, be it its echo
\* or the first thing the command itself has printed.
WithoutEcho(s) ==
  IF s # << >> /\ s[1] \in {<<"echo", number>>, <<"name", number>>} THEN Tail(s) ELSE s

-----------------------------------------------------------------------------
(***************************************************************************)
(* FeedReader: a chunk of what was shown reaches the relay.                *)
(***************************************************************************)

FeedReader ==
  \E n \in 1 .. Len(pipe) :
    /\ FeedLocked(SubSeq(pipe, 1, n))
    /\ pipe' = SubSeq(pipe, n + 1, Len(pipe))
    /\ ref' = ref \o SubSeq(pipe, 1, n)
    /\ UNCHANGED <<pc, number, failed, late, own, answer, disorder>>

-----------------------------------------------------------------------------
(***************************************************************************)
(* The shell.  Zsh resets and marks in preexec, before the command runs,   *)
(* and reads in precmd; Bash does all three in its prompt command, the     *)
(* reset and the mark first.                                               *)
(***************************************************************************)

Show(s) == pipe' = pipe \o s

\* The prompt is shown, the typed line is echoed, and the command is entered.
EnterCommand ==
  /\ pc = "prompt" /\ number < MaxCommands
  /\ number' = number + 1
  /\ pc' = IF Shell = "zsh" THEN "reset" ELSE "run"
  /\ Show(<< <<"prompt", number'>>, <<"echo", number'>> >>)
  /\ own' = << >>
  /\ failed' = FALSE
  /\ UNCHANGED <<relay, late, ref, answer, disorder>>

CommandPrints ==
  /\ pc = "run"
  /\ \E piece \in {<< <<"text", number>> >>, << <<"name", number>> >>,
                  << <<"head", number>>, <<"tail", number>> >>} :
       /\ Len(own \o piece) <= MaxPrint
       /\ own' = own \o piece
       /\ Cardinality({i \in DOMAIN own' : own'[i][1] = "name"}) <= MaxNames
       /\ Show(piece)
  /\ UNCHANGED <<pc, number, failed, relay, late, ref, answer, disorder>>

\* _solomon_precmd and _solomon_bash_precmd begin.
CommandEnds ==
  /\ pc = "run"
  /\ failed' \in BOOLEAN
  /\ pc' = IF Shell = "bash" THEN "reset" ELSE IF failed' THEN "read" ELSE "prompt"
  /\ UNCHANGED <<number, pipe, relay, late, own, ref, answer, disorder>>

\* `capture reset`, answered.
ResetAnswered ==
  /\ pc = "reset"
  /\ Reset
  /\ ref' = << >>
  /\ disorder' = (disorder \/ \E i \in DOMAIN pipe : pipe[i][1] = "mark")
  /\ pc' = "mark"
  /\ UNCHANGED <<number, failed, pipe, late, own, answer>>

\* The marker is printed; Bash then passes over a line equal to the last one.
PrintMarker ==
  /\ pc = "mark"
  /\ Show(Marker)
  /\ pc' \in IF Shell = "zsh" THEN {"run"}
             ELSE IF failed THEN {"read", "prompt"} ELSE {"prompt"}
  /\ UNCHANGED <<number, failed, relay, late, own, ref, answer, disorder>>

\* `capture read`, answered.
ReadAnswered ==
  /\ pc = "read"
  /\ Snapshot
  /\ answer' = [value |-> WithoutEcho(Flushed), drained |-> pipe = << >>,
                own |-> own, number |-> number]
  /\ pc' = "prompt"
  /\ UNCHANGED <<number, failed, pipe, late, own, ref, disorder>>

\* The client gives up after 200 ms; the adapter goes on without an answer.
Timeout ==
  /\ pc \in {"reset", "read"}
  /\ late' = late \cup {pc}
  /\ disorder' = (disorder \/ pc = "reset")
  /\ pc' = IF pc = "reset" THEN "mark" ELSE "prompt"
  /\ UNCHANGED <<number, failed, pipe, relay, own, ref, answer>>

\* A request that nobody waits for is handled all the same.
LateReset ==
  /\ "reset" \in late
  /\ late' = late \ {"reset"}
  /\ Reset
  /\ ref' = << >>
  /\ UNCHANGED <<pc, number, failed, pipe, own, answer, disorder>>

LateRead ==
  /\ "read" \in late
  /\ late' = late \ {"read"}
  /\ Snapshot
  /\ UNCHANGED <<pc, number, failed, pipe, own, ref, answer, disorder>>

-----------------------------------------------------------------------------
NoAnswer == [value |-> << >>, drained |-> FALSE, own |-> << >>, number |-> 0]

Init ==
  /\ pc = "prompt" /\ number = 0 /\ failed = FALSE
  /\ pipe = << >>
  /\ pending = << >> /\ output = << >> /\ active = FALSE
  /\ late = {} /\ own = << >> /\ ref = << >>
  /\ answer = NoAnswer /\ disorder = FALSE

Next ==
  \/ FeedReader
  \/ EnterCommand \/ CommandPrints \/ CommandEnds
  \/ ResetAnswered \/ PrintMarker \/ ReadAnswered
  \/ Timeout \/ LateReset \/ LateRead

Spec == Init /\ [][Next]_vars

-----------------------------------------------------------------------------
(***************************************************************************)
(* Properties.                                                             *)
(***************************************************************************)

\* Every variable has its type; what the relay retains stays within
\* MaxOutputBytes, and what it keeps back is shorter than a marker.
TypeOK ==
  /\ pc \in {"prompt", "reset", "mark", "run", "read"}
  /\ number \in 0 .. MaxCommands /\ failed \in BOOLEAN
  /\ pipe \in Seq(Symbol) /\ pending \in Seq(Symbol) /\ output \in Seq(Symbol)
  /\ Len(output) <= MaxOutput /\ Len(pending) < MarkerLength
  /\ active \in BOOLEAN /\ disorder \in BOOLEAN
  /\ late \subseteq {"reset", "read"}
  /\ own \in Seq(Symbol) /\ ref \in Seq(Symbol)
  /\ answer \in [value : Seq(Symbol), drained : BOOLEAN, own : Seq(Symbol), number : Nat]

\* The symbols that no filter touches.
Text(s) == At(s, {i \in DOMAIN s : s[i][1] \in {"prompt", "echo", "text", "name"}})

\* While every reset was answered and none overtook a marker, the relay holds, up to the filters
\* and the limit, exactly the end of what followed the last marker in the
\* stream, however the stream was cut into chunks; and it is inactive exactly
\* when no marker has come since the reset.
RelayMatchesStream ==
  ~disorder =>
    /\ active <=> MarkersIn(ref) # {}
    /\ active => LET held == Text(output \o pending)
                     shown == Text(AfterMarkers(ref))
                 IN  /\ IsSuffix(held, shown)
                     /\ Len(AfterMarkers(ref)) <= MaxOutput => held = shown

\* While every reset was answered and none overtook a marker, a read returns
\* nothing but output of the command that failed: not of an earlier command,
\* not the prompt or the typed line that the reset overtook in the pipe, and
\* no part of a marker.
ReadsOwnOutput ==
  ~disorder =>
    \A i \in DOMAIN answer.value :
      answer.value[i] \in {"text", "name", "tail"} \X {answer.number}

\* README.md:107-113, failure-output capture for Bash or Zsh, which falls back
\* to a hint without it only "if the relay is unavailable": when everything has
\* reached the relay, it answers, and the output fits, a read returns all text
\* that the failed command printed, but for one copy of the typed line that
\* begins it, which Snapshot takes for the echo.
AvailableOutputIsRead ==
  ~disorder /\ answer.drained /\ Len(answer.own) <= MaxOutput =>
    LET said == Text(answer.own)
        read == Text(answer.value)
    IN  \/ read = said
        \/ said # << >> /\ said[1] = <<"name", answer.number>> /\ read = Tail(said)

=============================================================================
