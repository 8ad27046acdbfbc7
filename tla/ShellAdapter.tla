---------------------------- MODULE ShellAdapter ----------------------------
(***************************************************************************)
(* The adapters that solomon installs into a shell, internal/shell/        *)
(* scripts.go: what happens between a user who edits and submits lines, a  *)
(* shell that runs them, and the daemon that is asked about them.          *)
(*                                                                         *)
(* Zsh, Fish and PowerShell take over the Enter key and, while a rewrite   *)
(* can be undone, Ctrl-G; Bash only looks at commands that have ended.  A  *)
(* line can also be accepted by a key that no adapter takes over (Ctrl-J). *)
(* Zsh has a hook that runs before a command, the other shells have not.   *)
(*                                                                         *)
(* The daemon is the one of DaemonService, seen from one session: what it  *)
(* says of a line is fixed, it holds at most one confirmation and one undo *)
(* for the session, and it may lose them, stop, or not answer in time.  A  *)
(* token of an undo is represented by the line that it restores.           *)
(***************************************************************************)
EXTENDS Naturals, FiniteSets

CONSTANTS
  Shells,       \* the shells to consider
  Line,         \* command lines
  Verdict,      \* of a line: "none", "hint", "confirm" or "rewrite"
  Fix,          \* of a line: the suggestion, another line
  Fold,         \* of a line: what it is without regard to upper and lower case
  DiagnosticLimit,
  MaxCommands   \* bound: commands that are run

None == "no value"

ASSUME ShellAssumption ==
  /\ Shells \subseteq {"zsh", "fish", "bash", "powershell"}
  /\ None \notin Line
  /\ Verdict \in [Line -> {"none", "hint", "confirm", "rewrite"}]
  /\ Fix \in [Line -> Line]
  /\ DOMAIN Fold = Line
  /\ DiagnosticLimit \in Nat /\ MaxCommands \in Nat

\* What Ctrl-G can be bound to by the user: what the shell comes with, a
\* function of the user's, or something that is not a function.
Widget == {"plain", "own", "macro"}

VARIABLES
  shell,
  mode,       \* "edit", or "run" while a command runs
  line,       \* the buffer, or the line that runs
  pending,    \* pending rewrite and undo, the Ctrl-G binding, automatic rewrite
  token,      \* the pending failure token, 0 for none
  lastToken,  \* Zsh: the token of the command that runs
  sequence,   \* the failure sequence
  lastLine,   \* Bash: the line it has looked at last
  ready,      \* the handshake has been made
  count, seen,            \* of suggestions that were shown
  up, confirmation, undo, \* the daemon: running, what it holds for the session
  hist        \* history, see NoHistory

hintVars == <<count, seen>>
adapterVars == <<token, lastToken, sequence, lastLine, hintVars>>
daemonVars == <<up, confirmation, undo>>
vars == <<shell, mode, line, pending, adapterVars, ready, daemonVars, hist>>

NoPending == [rewrite |-> None, undo |-> None, key |-> "plain", saved |-> None,
              automatic |-> None]

\* user: what the user last bound Ctrl-G to; rebound: while it was the adapter's;
\* ours: the buffer is an untouched rewrite; replaced: the line it replaced;
\* entered: the command was accepted with Enter; presses: how often Enter was
\* pressed in vain on the buffer as the adapter left it; unasked: lines that ran unasked because the daemon was gone;
\* own: commands since the last failure that were not accepted rewrites;
\* report: the last success that was reported.
NoHistory ==
  [user |-> "plain", rebound |-> FALSE, ours |-> FALSE, replaced |-> None,
   entered |-> FALSE, presses |-> 0, unasked |-> 0, own |-> 0, commands |-> 0,
   report |-> [token |-> 0, latest |-> 0, own |-> 0, ours |-> FALSE]]

-----------------------------------------------------------------------------
(***************************************************************************)
(* What the adapter has pending, as functions on the record.               *)
(***************************************************************************)

\* Mutant: Zsh forgets the user's widget instead of binding it again.
RestoreUndo_Forgets(p) == [p EXCEPT !.saved = None]

\* Zsh looks whether the key is still its own, and otherwise keeps what it saved.
RestoreUndoZsh(p) ==
  IF p.key = "undo" THEN [p EXCEPT !.key = p.saved, !.saved = None] ELSE p

\* Fish looks too; it takes only an unbound key, which it unbinds again.
RestoreUndoFish(p) ==
  [p EXCEPT !.key = IF @ = "undo" THEN "plain" ELSE @, !.saved = None]

\* PowerShell does not look.
RestoreUndoPowerShell(p) == [p EXCEPT !.key = p.saved, !.saved = None]

\* The user's Ctrl-G binding is put back.
RestoreUndo(p) ==
  CASE p.saved = None -> p
    [] p.saved # None /\ shell = "zsh" -> RestoreUndoZsh(p)
    [] p.saved # None /\ shell = "fish" -> RestoreUndoFish(p)
    [] OTHER -> RestoreUndoPowerShell(p)

ClearPendingUndo(p) == RestoreUndo([p EXCEPT !.undo = None])

\* Mutant: the undo outlives the rewrite.
ClearPendingRewrite_KeepsUndo(p) == [p EXCEPT !.rewrite = None, !.automatic = None]

ClearPendingRewrite(p) ==
  ClearPendingUndo([p EXCEPT !.rewrite = None, !.automatic = None])

\* The bindings that the adapter can take over and put back.
Bindable == IF shell = "fish" THEN {"plain"} ELSE {"plain", "own"}

\* What came as the undo of the rewrite is kept if Ctrl-G can be bound.
BindUndo(p, original) ==
  CASE p.saved # None -> [p EXCEPT !.undo = original]
    [] p.saved = None /\ p.key \in Bindable ->
         [p EXCEPT !.undo = original, !.saved = p.key, !.key = "undo"]
    [] OTHER -> p

\* Mutant: a rewrite is not recognised when it is entered.
Accepted_Never == FALSE

\* PowerShell's -eq takes no notice of case.
SameText(l, m) == IF shell = "powershell" THEN Fold[l] = Fold[m] ELSE l = m

\* Enter on the rewrite that is pending.
Accepted == pending.rewrite # None /\ SameText(line, pending.rewrite)

\* What is pending when Enter was pressed on anything else.
Dropped == IF pending.rewrite # None THEN ClearPendingRewrite(pending) ELSE pending

\* Mutant: the hook before a command leaves the rewrite alone.
Preexec_Keeps(p) == p

\* Zsh's hook before a command.
Preexec(p) ==
  IF shell = "zsh" THEN ClearPendingUndo([p EXCEPT !.rewrite = None, !.automatic = None])
  ELSE p

\* Zsh's hook takes the failure token for the command, unless an accepted
\* rewrite runs.
TakeToken(p) ==
  IF shell # "zsh" THEN UNCHANGED <<token, lastToken>>
  ELSE /\ lastToken' = IF line = p.automatic THEN 0 ELSE token
       /\ token' = IF line = p.automatic THEN token ELSE 0

\* The line is accepted and runs.
Run(p, entered, unasked) ==
  /\ hist.commands < MaxCommands
  /\ mode' = "run"
  /\ pending' = Preexec(p)
  /\ TakeToken(p)
  /\ hist' = [hist EXCEPT !.entered = entered, !.presses = 0, !.unasked = unasked,
                          !.commands = @ + 1,
                          !.own = IF p.automatic # None THEN @ ELSE @ + 1]
  /\ UNCHANGED <<shell, line, sequence, lastLine>>

\* The line stays in the buffer, for the user to look at again.
Hold(p, ours, replaced) ==
  /\ pending' = p
  /\ hist' = [hist EXCEPT !.presses = @ + 1, !.unasked = 0, !.ours = ours,
                          !.replaced = replaced]
  /\ UNCHANGED <<shell, mode, token, lastToken, sequence, lastLine>>

\* Mutant: a suggestion may be shown again.
AllowSuggestion_Repeats(s) == count < DiagnosticLimit

AllowSuggestion(s) == s \notin seen /\ count < DiagnosticLimit

ShowSuggestion(s) ==
  IF AllowSuggestion(s)
  THEN count' = count + 1 /\ seen' = seen \cup {s}
  ELSE UNCHANGED hintVars

-----------------------------------------------------------------------------
(***************************************************************************)
(* The user, in the editor.                                                *)
(***************************************************************************)

\* The buffer is edited, or abandoned and another line is typed: none of the
\* adapters hears of it.
Edit(l) ==
  /\ mode = "edit" /\ l # line
  /\ line' = l
  /\ hist' = [hist EXCEPT !.ours = FALSE, !.presses = 0]
  /\ UNCHANGED <<shell, mode, pending, adapterVars, ready, daemonVars>>

\* A key that no adapter has taken over accepts the line; in Bash, Enter.
AcceptElsewhere ==
  /\ mode = "edit"
  /\ Run(pending, FALSE, hist.unasked)
  /\ UNCHANGED <<ready, hintVars, daemonVars>>

Enter == mode = "edit" /\ shell # "bash"

\* Enter on a pending rewrite: it runs and the daemon is not asked again.
EnterAccepts ==
  /\ Enter /\ Accepted
  /\ Run([ClearPendingRewrite(pending) EXCEPT !.automatic = line], TRUE, hist.unasked)
  /\ UNCHANGED <<ready, hintVars, daemonVars>>

\* The daemon cannot be started, or not in time: the line runs.
EnterNoHandshake ==
  /\ Enter /\ ~Accepted
  /\ ~ready
  /\ up' \in {up, TRUE}
  /\ Run(Dropped, TRUE, 0)
  /\ UNCHANGED <<ready, hintVars, confirmation, undo>>

\* Mutant: the adapter goes on believing in a daemon that does not answer.
Unready_Stays == UNCHANGED ready

Unready == ready' = FALSE

\* The handshake was made earlier and the daemon has gone since.
EnterDaemonGone ==
  /\ Enter /\ ~Accepted
  /\ ready /\ ~up
  /\ Unready
  /\ Run(Dropped, TRUE, hist.unasked + 1)
  /\ UNCHANGED <<hintVars, daemonVars>>

\* The handshake is made, and starts the daemon if it has to; the pre-send
\* request that follows does not.
Handshake ==
  /\ Enter /\ ~Accepted
  /\ ready => up
  /\ up' = TRUE

\* What the daemon holds once it has handled the line: an undo comes with a
\* rewrite unless undo is off.
Handled ==
  /\ undo' \in IF Verdict[line] = "rewrite" THEN {line, None} ELSE {None}
  /\ confirmation' = IF Verdict[line] # "confirm" THEN confirmation
                     ELSE IF confirmation = line THEN None ELSE line

\* The request is not answered in time: the line runs.  The daemon may have
\* handled it all the same.
EnterTimesOut ==
  /\ Handshake
  /\ ready' = FALSE
  /\ Run(Dropped, TRUE, 0)
  /\ UNCHANGED <<undo, confirmation>> \/ Handled
  /\ UNCHANGED hintVars

\* Zsh and Fish decode records with base64; solomon writes them without
\* padding, which some base64 programs reject.
Decodes == {"zsh", "fish"}

\* The suggestion (in Fish, or its cause) cannot be decoded: the line runs,
\* be it one that the daemon holds back.
EnterUndecoded ==
  /\ Handshake /\ ready' = TRUE
  /\ shell \in Decodes /\ Verdict[line] # "none"
  /\ Handled
  /\ Run(Dropped, TRUE, 0)
  /\ UNCHANGED hintVars

\* Answered: none or submit, a hint, an interrupt, or a rewrite.
EnterSubmits ==
  /\ Handshake /\ ready' = TRUE
  /\ \/ Verdict[line] = "none" /\ UNCHANGED confirmation
     \/ Verdict[line] = "confirm" /\ confirmation = line /\ confirmation' = None
  /\ undo' = None
  /\ Run(Dropped, TRUE, 0)
  /\ UNCHANGED hintVars

EnterHints ==
  /\ Handshake /\ ready' = TRUE
  /\ Verdict[line] = "hint"
  /\ undo' = None
  /\ ShowSuggestion(Fix[line])
  /\ Run(Dropped, TRUE, 0)
  /\ UNCHANGED confirmation

EnterInterrupts ==
  /\ Handshake /\ ready' = TRUE
  /\ Verdict[line] = "confirm" /\ confirmation # line
  /\ confirmation' = line
  /\ undo' = None
  /\ Hold(Dropped, hist.ours, hist.replaced)
  /\ UNCHANGED <<line, hintVars>>

\* What an undo token that cannot be decoded leaves: Fish passes over it, Zsh
\* binds Ctrl-G for nothing.
BindUndecoded(p) == IF shell = "zsh" THEN BindUndo(p, None) ELSE p

\* The rewrite replaces the buffer; an undo may come with it.
EnterRewrites ==
  LET p == [Dropped EXCEPT !.rewrite = Fix[line]]
  IN  /\ Handshake /\ ready' = TRUE
      /\ Verdict[line] = "rewrite"
      /\ line' = Fix[line]
      /\ \/ undo' = None /\ Hold(p, TRUE, line)
         \/ undo' = line /\ Hold(BindUndo(p, line), TRUE, line)
         \/ undo' = line /\ shell \in Decodes /\ Hold(BindUndecoded(p), TRUE, line)
      /\ UNCHANGED <<hintVars, confirmation>>

\* Ctrl-G, bound to the adapter: the daemon gives the original line back.
UndoRewrite ==
  /\ mode = "edit" /\ pending.key = "undo"
  /\ pending.rewrite # None /\ pending.undo # None
  /\ up /\ undo = pending.undo
  /\ line' = undo /\ undo' = None
  /\ pending' = ClearPendingRewrite(pending)
  /\ hist' = [hist EXCEPT !.ours = FALSE, !.presses = 0]
  /\ UNCHANGED <<shell, mode, adapterVars, ready, up, confirmation>>

\* Ctrl-G when the daemon no longer knows the token, is gone or is too late.
UndoFails ==
  /\ mode = "edit" /\ pending.key = "undo"
  /\ pending.rewrite # None /\ pending.undo # None
  /\ undo' \in {undo, None}
  /\ pending' = ClearPendingUndo(pending)
  /\ UNCHANGED <<shell, mode, line, adapterVars, ready, up, confirmation, hist>>

-----------------------------------------------------------------------------
(***************************************************************************)
(* The command.                                                            *)
(***************************************************************************)

\* The command, or a file that it sources, binds Ctrl-G.
Rebind(w) ==
  /\ mode = "run" /\ shell # "bash" /\ w # pending.key
  /\ pending' = [pending EXCEPT !.key = w]
  /\ hist' = [hist EXCEPT !.user = w, !.rebound = @ \/ pending.saved # None]
  /\ UNCHANGED <<shell, mode, line, adapterVars, ready, daemonVars>>

\* Mutant: the token goes to an accepted rewrite too.
TokenTaken_Always == IF shell = "zsh" THEN lastToken ELSE token

\* The token that is reported with a success.
TokenTaken ==
  CASE shell = "zsh" -> lastToken
    [] shell = "bash" -> 0
    [] OTHER -> IF pending.automatic # None THEN 0 ELSE token

\* The hook after a command that succeeded: post-success, if there is a daemon.
Succeeds ==
  /\ mode = "run"
  /\ mode' = "edit"
  /\ token' = IF shell # "zsh" /\ TokenTaken # 0 THEN 0 ELSE token
  /\ lastToken' = 0
  /\ lastLine' = IF shell = "bash" THEN line ELSE lastLine
  /\ pending' = [pending EXCEPT !.automatic = None]
  /\ undo' \in IF shell = "bash" \/ ~up THEN {undo} ELSE {undo, None}
  /\ hist' = [hist EXCEPT !.report = [token |-> TokenTaken, latest |-> sequence, own |-> hist.own,
                                      ours |-> hist.ours /\ hist.entered],
                          !.ours = FALSE]
  /\ UNCHANGED <<shell, line, sequence, ready, hintVars, up, confirmation>>

\* Bash passes over a line equal to the one that it has looked at last.
BashSkips == shell = "bash" /\ line = lastLine

\* After a command that failed: post-failure, which starts a daemon if it can.
Fails ==
  /\ mode = "run"
  /\ mode' = "edit"
  /\ lastToken' = 0
  /\ pending' = [pending EXCEPT !.automatic = None]
  /\ hist' = [hist EXCEPT !.own = 0, !.ours = FALSE]
  /\ IF BashSkips
     THEN UNCHANGED <<sequence, token, lastLine, hintVars, up, undo>>
     ELSE /\ sequence' = sequence + 1
          /\ token' = IF shell = "bash" THEN token ELSE sequence'
          /\ lastLine' = IF shell = "bash" THEN line ELSE lastLine
          /\ \/ UNCHANGED <<hintVars, up, undo>>
             \/ /\ up' = TRUE /\ undo' = None
                /\ ShowSuggestion(Fix[line])
  /\ UNCHANGED <<shell, line, ready, confirmation>>

-----------------------------------------------------------------------------
(***************************************************************************)
(* The daemon.                                                             *)
(***************************************************************************)

DaemonStops ==
  /\ up
  /\ up' = FALSE /\ confirmation' = None /\ undo' = None
  /\ hist' = [hist EXCEPT !.presses = 0, !.unasked = 0]
  /\ UNCHANGED <<shell, mode, line, pending, adapterVars, ready>>

\* A confirmation or an undo reaches the end of its lifetime.
Expires ==
  /\ \/ /\ confirmation # None /\ confirmation' = None
        /\ hist' = [hist EXCEPT !.presses = 0]
        /\ UNCHANGED undo
     \/ undo # None /\ undo' = None /\ UNCHANGED <<confirmation, hist>>
  /\ UNCHANGED <<shell, mode, line, pending, adapterVars, ready, up>>

-----------------------------------------------------------------------------
Init ==
  /\ shell \in Shells
  /\ mode = "edit" /\ line \in Line
  /\ \E w \in Widget : pending = [NoPending EXCEPT !.key = w]
                       /\ hist = [NoHistory EXCEPT !.user = w]
  /\ token = 0 /\ lastToken = 0 /\ sequence = 0 /\ lastLine = None
  /\ ready = FALSE /\ count = 0 /\ seen = {}
  /\ up \in BOOLEAN /\ confirmation = None /\ undo = None

Next ==
  \/ \E l \in Line : Edit(l)
  \/ AcceptElsewhere
  \/ EnterAccepts \/ EnterNoHandshake \/ EnterDaemonGone \/ EnterTimesOut
  \/ EnterUndecoded \/ EnterSubmits \/ EnterHints \/ EnterInterrupts \/ EnterRewrites
  \/ UndoRewrite \/ UndoFails
  \/ \E w \in Widget : Rebind(w)
  \/ Succeeds \/ Fails
  \/ DaemonStops \/ Expires

Spec == Init /\ [][Next]_vars

-----------------------------------------------------------------------------
(***************************************************************************)
(* Properties.                                                             *)
(***************************************************************************)

\* Every variable has its type; README.md:129, at most five hints are shown,
\* before a command and after one together, and none of them twice.
TypeOK ==
  /\ shell \in Shells /\ mode \in {"edit", "run"} /\ line \in Line
  /\ pending \in [rewrite : Line \cup {None}, undo : Line \cup {None},
                  key : Widget \cup {"undo"}, saved : Widget \cup {None},
                  automatic : Line \cup {None}]
  /\ sequence \in Nat /\ token \in 0 .. sequence /\ lastToken \in 0 .. sequence
  /\ lastLine \in Line \cup {None}
  /\ ready \in BOOLEAN /\ up \in BOOLEAN
  /\ confirmation \in Line \cup {None} /\ undo \in Line \cup {None}
  /\ seen \subseteq Line /\ count = Cardinality(seen) /\ count <= DiagnosticLimit

\* A success is reported as the correction of a failure only if it is the
\* latest failure, the command is the first since then that is not an accepted
\* rewrite (so that a failure has one correction at most), and the line was not
\* put into the buffer by Solomon and accepted with Enter as it stood.
CorrectionsAreTheUsers ==
  hist.report.token # 0 =>
    /\ hist.report.token = hist.report.latest
    /\ hist.report.own = 1
    /\ ~hist.report.ours

\* The undo that is pending belongs to the rewrite that is pending: it restores
\* the line which that rewrite replaced.
UndoFitsRewrite ==
  pending.undo # None => pending.rewrite # None /\ pending.undo = hist.replaced

\* Ctrl-G is the adapter's only while a rewrite is pending, and it is while an
\* undo is, unless the user has bound the key meanwhile; otherwise it is what the
\* user last bound it to.  (Zsh takes the key for a token that it could not
\* decode, the others only with an undo; PowerShell overwrites a binding made
\* while the key was its own.)
UndoKeyIsLent ==
  /\ pending.undo # None /\ ~hist.rebound => pending.key = "undo"
  /\ pending.key = "undo" => pending.rewrite # None /\ (pending.undo # None \/ shell = "zsh")
  /\ pending.key = "undo" \/ pending.key = hist.user \/ (shell = "powershell" /\ hist.rebound)

\* Nothing stays pending once a command runs that was accepted with Enter; in
\* Zsh, whichever key accepted it.
NothingPendingWhileRunning ==
  mode = "run" /\ (shell = "zsh" \/ hist.entered) =>
    pending.rewrite = None /\ pending.undo = None /\ pending.saved = None

\* Two Enters in a row are not both in vain: what a rewrite or an interrupt has
\* left in the buffer runs at the next Enter, unless the daemon has forgotten
\* the confirmation.  (This is about the buffer as it was left.  Ctrl-G puts the
\* original line back, and Enter then rewrites that again, as often as it is
\* done: no Enter runs a line whose rewrite is undone.)
SecondEnterRuns == hist.presses <= 1

\* When the daemon goes away, at most one line runs unasked before the adapter
\* makes the handshake again.
AtMostOneUnasked == hist.unasked <= 1

=============================================================================
