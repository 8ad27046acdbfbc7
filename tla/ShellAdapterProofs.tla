------------------------- MODULE ShellAdapterProofs -------------------------
(***************************************************************************)
(* Proofs about the shell adapters, for any command lines, verdicts and    *)
(* suggestions, any limit, and any number of commands.                     *)
(***************************************************************************)
EXTENDS ShellAdapter, FiniteSetTheorems, TLAPS

Pending == [rewrite : Line \cup {None}, undo : Line \cup {None},
            key : Widget \cup {"undo"}, saved : Widget \cup {None},
            automatic : Line \cup {None}]

History ==
  [user : Widget, rebound : BOOLEAN, ours : BOOLEAN, replaced : Line \cup {None},
   entered : BOOLEAN, presses : Nat, unasked : Nat, own : Nat, commands : Nat,
   report : [token : Nat, latest : Nat, own : Nat, ours : BOOLEAN]]
HistoryOK == hist \in History /\ IsFiniteSet(seen)

\* A binding is taken with an undo, in Zsh also for one that could not be
\* decoded, and both belong to a rewrite.
PendingOK(p) ==
  /\ p.undo # None => p.saved # None
  /\ p.saved # None => p.rewrite # None /\ (p.undo # None \/ shell = "zsh")

\* Ctrl-G is the adapter's only while it holds the user's binding.
Kept == shell # "fish" => ~hist.rebound
KeyOK(p) ==
  /\ p.key = "undo" => p.saved # None
  /\ ~hist.rebound => (p.saved # None => p.key = "undo")
  /\ Kept /\ p.key = "undo" => p.saved = hist.user
  /\ Kept /\ p.key # "undo" => p.key = hist.user
  /\ shell = "fish" /\ p.saved # None => p.saved = "plain"

PendingInv ==
  /\ PendingOK(pending)
  /\ KeyOK(pending)
  /\ shell \in {"zsh", "bash"} => ~hist.rebound
  /\ pending.undo # None => pending.undo = hist.replaced

\* What is pending while a command runs, and before.
ModeInv ==
  /\ mode = "edit" => pending.automatic = None
  /\ mode = "run" => pending.automatic \in {None, line}
  /\ shell = "zsh" => pending.automatic = None
  /\ mode = "run" /\ (shell = "zsh" \/ hist.entered) => pending.rewrite = None

\* A failure token is the latest one and no command of the user's has run
\* since, or the first runs.
TokenInv ==
  /\ mode = "edit" => lastToken = 0
  /\ shell # "zsh" => lastToken = 0
  /\ shell = "bash" => token = 0
  /\ token # 0 => token = sequence
  /\ lastToken # 0 => lastToken = sequence /\ hist.own = 1
  /\ token # 0 /\ (mode = "edit" \/ shell = "zsh" \/ pending.automatic # None) => hist.own = 0
  /\ token # 0 /\ mode = "run" /\ shell # "zsh" /\ pending.automatic = None => hist.own = 1

\* A rewrite that is in the buffer as it stood is recognised when it is entered.
OursInv ==
  /\ mode = "edit" /\ hist.ours => line = pending.rewrite
  /\ mode = "run" /\ hist.ours /\ hist.entered =>
       lastToken = 0 /\ (shell # "zsh" => pending.automatic # None)

\* After Enter in vain the line is the pending rewrite, or is confirmed.
PressInv ==
  /\ mode = "run" => hist.presses = 0
  /\ hist.presses # 0 =>
       \/ line = pending.rewrite
       \/ Verdict[line] = "confirm" /\ confirmation = line

AskedInv == ready => hist.unasked = 0

ShellInv ==
  /\ TypeOK /\ HistoryOK /\ PendingInv /\ ModeInv /\ TokenInv /\ OursInv /\ PressInv
  /\ AskedInv /\ CorrectionsAreTheUsers /\ SecondEnterRuns /\ AtMostOneUnasked

-----------------------------------------------------------------------------
\* What is pending.

LEMMA NoLine == \A l \in Line : l # None
  BY ShellAssumption

\* Clearing an undo puts the user's binding back.
LEMMA Cleared ==
  ASSUME NEW p \in Pending, PendingOK(p), KeyOK(p), shell \in {"zsh", "bash"} => ~hist.rebound,
         NEW q, q = ClearPendingUndo(p)
  PROVE  /\ q \in Pending /\ q.undo = None /\ q.saved = None
         /\ q.rewrite = p.rewrite /\ q.automatic = p.automatic
         /\ PendingOK(q) /\ KeyOK(q)
<1>1. q = RestoreUndo([p EXCEPT !.undo = None])
  BY DEF ClearPendingUndo
<1> DEFINE r == [p EXCEPT !.undo = None]
<1>2. r \in Pending /\ r.undo = None /\ r.saved = p.saved /\ r.key = p.key
      /\ r.rewrite = p.rewrite /\ r.automatic = p.automatic
  BY DEF Pending
<1>3. CASE p.saved = None
  BY <1>1, <1>2, <1>3 DEF RestoreUndo, PendingOK, KeyOK
<1> HIDE DEF r
<1>4. CASE p.saved # None /\ shell = "zsh"
  <2>1. p.key = "undo"
    BY <1>4 DEF KeyOK
  <2>2. q = [r EXCEPT !.key = r.saved, !.saved = None]
    BY <1>1, <1>2, <1>4, <2>1 DEF RestoreUndo, RestoreUndoZsh, r
  <2> QED
    BY <1>2, <1>4, <2>1, <2>2 DEF Pending, PendingOK, KeyOK, Widget, Kept, None
<1>5. CASE p.saved # None /\ shell = "fish"
  <2>1. q = [r EXCEPT !.key = IF r.key = "undo" THEN "plain" ELSE r.key, !.saved = None]
    BY <1>1, <1>2, <1>5 DEF RestoreUndo, RestoreUndoFish, r
  <2> QED
    BY <1>2, <1>5, <2>1 DEF Pending, PendingOK, KeyOK, Widget, Kept, None
<1>6. CASE p.saved # None /\ shell \notin {"zsh", "fish"}
  <2>1. q = [r EXCEPT !.key = r.saved, !.saved = None]
    BY <1>1, <1>2, <1>6 DEF RestoreUndo, RestoreUndoPowerShell, r
  <2> QED
    BY <1>2, <1>6, <2>1 DEF Pending, PendingOK, KeyOK, Widget, Kept, None
<1> QED
  BY <1>3, <1>4, <1>5, <1>6

LEMMA ClearedRewrite ==
  ASSUME NEW p \in Pending, PendingOK(p), KeyOK(p), shell \in {"zsh", "bash"} => ~hist.rebound,
         NEW q, q = ClearPendingRewrite(p)
  PROVE  /\ q \in Pending /\ q.undo = None /\ q.saved = None
         /\ q.rewrite = None /\ q.automatic = None
         /\ PendingOK(q) /\ KeyOK(q)
<1> DEFINE r == [p EXCEPT !.rewrite = None, !.automatic = None]
<1>1. CASE p.saved = None
  <2>1. r \in Pending /\ PendingOK(r) /\ KeyOK(r) /\ r.rewrite = None /\ r.automatic = None
    BY <1>1 DEF Pending, PendingOK, KeyOK
  <2> HIDE DEF r
  <2>2. q = ClearPendingUndo(r)
    BY DEF ClearPendingRewrite, r
  <2> QED
    BY <2>1, <2>2, Cleared
<1>2. CASE p.saved # None
  \* The undo is cleared last, so the intermediate record has one without a
  \* rewrite; the order does not matter.
  <2> DEFINE u == ClearPendingUndo(p)
  <2>1. /\ u \in Pending /\ u.undo = None /\ u.saved = None /\ PendingOK(u) /\ KeyOK(u)
    BY Cleared
  <2>2. q = [u EXCEPT !.rewrite = None, !.automatic = None]
    BY DEF ClearPendingRewrite, ClearPendingUndo, RestoreUndo, RestoreUndoZsh, RestoreUndoFish,
       RestoreUndoPowerShell, Pending
  <2> HIDE DEF u
  <2> QED
    BY <2>1, <2>2 DEF Pending, PendingOK, KeyOK
<1> QED
  BY <1>1, <1>2

LEMMA DroppedOK ==
  ASSUME TypeOK, PendingInv, ModeInv, mode = "edit", NEW q, q = Dropped
  PROVE  /\ q \in Pending /\ q.undo = None /\ q.saved = None
         /\ q.rewrite = None /\ q.automatic = None
         /\ PendingOK(q) /\ KeyOK(q)
<1>1. pending \in Pending
  BY DEF TypeOK, Pending
<1>2. CASE pending.rewrite # None
  BY <1>1, <1>2, ClearedRewrite DEF Dropped, PendingInv
<1>3. CASE pending.rewrite = None
  BY <1>1, <1>3 DEF Dropped, PendingInv, PendingOK, ModeInv
<1> QED
  BY <1>2, <1>3

\* Binding Ctrl-G to an undo.
LEMMA Bound ==
  ASSUME NEW p \in Pending, PendingOK(p), KeyOK(p), p.rewrite # None, p.saved = None,
         NEW original \in Line \cup {None}, original # None \/ shell = "zsh",
         NEW q, q = BindUndo(p, original)
  PROVE  /\ q \in Pending /\ PendingOK(q) /\ KeyOK(q)
         /\ q.rewrite = p.rewrite /\ q.automatic = p.automatic
         /\ q.undo \in {None, original}
<1>1. CASE p.key \in Bindable
  <2>1. q = [p EXCEPT !.undo = original, !.saved = p.key, !.key = "undo"]
    BY <1>1 DEF BindUndo
  <2>2. /\ q.undo = original /\ q.saved = p.key /\ q.key = "undo"
        /\ q.rewrite = p.rewrite /\ q.automatic = p.automatic
    BY <2>1 DEF Pending
  <2>3. p.key \in Widget /\ p.key # None /\ p.key # "undo"
        /\ (shell = "fish" => p.key = "plain")
    BY <1>1 DEF Bindable, Widget, None
  <2>4. q \in Pending
    BY <2>1, <2>3 DEF Pending
  <2>5. PendingOK(q)
    BY <2>2, <2>3 DEF PendingOK
  <2>6. KeyOK(q)
    BY <2>2, <2>3 DEF KeyOK, Kept
  <2> QED
    BY <2>2, <2>4, <2>5, <2>6
<1>2. CASE p.key \notin Bindable
  BY <1>2 DEF BindUndo, PendingOK
<1> QED
  BY <1>1, <1>2

-----------------------------------------------------------------------------
\* Steps, by what they have in common.

HintOK ==
  /\ seen \subseteq Line /\ IsFiniteSet(seen)
  /\ count = Cardinality(seen) /\ count <= DiagnosticLimit
DaemonOK ==
  /\ ready \in BOOLEAN /\ up \in BOOLEAN
  /\ confirmation \in Line \cup {None} /\ undo \in Line \cup {None}

LEMMA Hinted ==
  ASSUME HintOK, NEW s \in Line, ShowSuggestion(s)
  PROVE  HintOK'
<1>1. CASE AllowSuggestion(s)
  <2>1. s \notin seen /\ count < DiagnosticLimit /\ count' = count + 1 /\ seen' = seen \cup {s}
    BY <1>1 DEF ShowSuggestion, AllowSuggestion
  <2>2. IsFiniteSet(seen') /\ Cardinality(seen') = Cardinality(seen) + 1 /\ Cardinality(seen) \in Nat
    BY <2>1, FS_AddElement, FS_CardinalityType DEF HintOK
  <2> QED
    BY <2>1, <2>2, ShellAssumption DEF HintOK
<1>2. CASE ~AllowSuggestion(s)
  BY <1>2 DEF ShowSuggestion, HintOK, hintVars
<1> QED
  BY <1>1, <1>2

LEMMA HintsUnchanged == ASSUME HintOK, UNCHANGED hintVars PROVE HintOK'
  BY DEF HintOK, hintVars

LEMMA Parts ==
  ASSUME ShellInv
  PROVE  HintOK /\ DaemonOK /\ pending \in Pending
  BY DEF ShellInv, TypeOK, HistoryOK, HintOK, DaemonOK, Pending

\* A line that runs.
LEMMA RunStep ==
  ASSUME ShellInv, mode = "edit", NEW p \in Pending, PendingOK(p), KeyOK(p),
         NEW entered \in BOOLEAN, NEW unasked \in {0, 1}, Run(p, entered, unasked),
         p.automatic \in {None, line},
         p.undo # None => p.undo = hist.replaced,
         entered => p.rewrite = None,
         entered /\ hist.ours => p.automatic = line,
         HintOK', DaemonOK', ready' => unasked = 0
  PROVE  ShellInv'
<1> USE DEF ShellInv
<1>0. /\ shell' = shell /\ mode' = "run" /\ line' = line /\ sequence' = sequence
      /\ lastLine' = lastLine /\ pending' = Preexec(p)
      /\ hist' = [hist EXCEPT !.entered = entered, !.presses = 0, !.unasked = unasked,
                              !.commands = @ + 1,
                              !.own = IF p.automatic # None THEN @ ELSE @ + 1]
  BY DEF Run
<1>1. /\ hist'.user = hist.user /\ hist'.rebound = hist.rebound /\ hist'.ours = hist.ours
      /\ hist'.replaced = hist.replaced /\ hist'.entered = entered /\ hist'.presses = 0
      /\ hist'.unasked = unasked /\ hist'.report = hist.report
      /\ hist'.own = IF p.automatic # None THEN hist.own ELSE hist.own + 1
  BY <1>0 DEF HistoryOK, History
<1>2. HistoryOK'
  <2>1. hist \in History
    BY DEF HistoryOK
  <2>2. hist.own + 1 \in Nat /\ hist.commands + 1 \in Nat /\ unasked \in Nat /\ 0 \in Nat
    BY <2>1 DEF History
  <2>3. hist' \in History
    BY <1>0, <2>1, <2>2, Zenon DEF History
  <2> QED
    BY <2>3 DEF HistoryOK, HintOK
<1>3. /\ pending' \in Pending /\ PendingOK(pending') /\ KeyOK(pending')
      /\ pending'.undo # None => pending'.undo = hist.replaced
      /\ entered \/ shell = "zsh" => pending'.rewrite = None
      /\ shell = "zsh" => pending'.automatic = None
      /\ shell # "zsh" => pending'.automatic = p.automatic
  <2>1. CASE shell = "zsh"
    <3>1. pending' = ClearPendingRewrite(p)
      BY <1>0, <2>1 DEF Preexec, ClearPendingRewrite
    <3> QED
      BY <2>1, <3>1, ClearedRewrite DEF PendingInv
  <2>2. CASE shell # "zsh"
    BY <1>0, <2>2 DEF Preexec
  <2> QED
    BY <2>1, <2>2
<1>4. PendingInv'
  <2>1. KeyOK(pending)' <=> KeyOK(pending')
    BY <1>0, <1>1 DEF KeyOK, Kept
  <2> QED
    BY <1>0, <1>1, <1>3, <2>1 DEF PendingInv, PendingOK
<1>5. ModeInv'
  BY <1>0, <1>1, <1>3 DEF ModeInv
<1>6. token' \in 0 .. sequence /\ lastToken' \in 0 .. sequence /\ sequence \in Nat
  BY DEF Run, TakeToken, TypeOK
<1>7. TypeOK'
  BY <1>0, <1>3, <1>6 DEF TypeOK, Pending, HintOK, DaemonOK
<1>8. TokenInv' /\ OursInv'
  <2>1. hist.own \in Nat /\ line # None
    BY NoLine DEF HistoryOK, History, TypeOK
  <2>2. CASE shell = "zsh" /\ p.automatic = line
    <3>1. lastToken' = 0 /\ token' = token
      BY <2>2 DEF Run, TakeToken
    <3> QED
      BY <1>0, <1>1, <1>3, <2>1, <2>2, <3>1 DEF TokenInv, OursInv
  <2>3. CASE shell = "zsh" /\ p.automatic = None
    <3>1. lastToken' = token /\ token' = 0
      BY <2>1, <2>3 DEF Run, TakeToken
    <3> QED
      BY <1>0, <1>1, <1>3, <2>1, <2>3, <3>1 DEF TokenInv, OursInv
  <2>4. CASE shell # "zsh"
    <3>1. lastToken' = lastToken /\ token' = token
      BY <2>4 DEF Run, TakeToken
    <3> QED
      BY <1>0, <1>1, <1>3, <2>1, <2>4, <3>1 DEF TokenInv, OursInv
  <2> QED
    BY <2>2, <2>3, <2>4
<1>9. PressInv' /\ AskedInv' /\ CorrectionsAreTheUsers' /\ SecondEnterRuns' /\ AtMostOneUnasked'
  BY <1>0, <1>1 DEF PressInv, AskedInv, CorrectionsAreTheUsers, SecondEnterRuns, AtMostOneUnasked
<1> QED
  BY <1>2, <1>4, <1>5, <1>7, <1>8, <1>9

\* The line as it was, or a rewrite, stays in the buffer.
LEMMA HoldStep ==
  ASSUME ShellInv, mode = "edit", hist.presses = 0, NEW p \in Pending, PendingOK(p), KeyOK(p),
         NEW ours \in BOOLEAN, NEW replaced \in Line \cup {None}, Hold(p, ours, replaced),
         p.automatic = None, p.undo # None => p.undo = replaced,
         line' \in Line, ours => line' = p.rewrite,
         line' = p.rewrite \/ (Verdict[line'] = "confirm" /\ confirmation' = line'),
         HintOK', DaemonOK'
  PROVE  ShellInv'
<1> USE DEF ShellInv
<1>0. /\ shell' = shell /\ mode' = "edit" /\ sequence' = sequence
      /\ token' = token /\ lastToken' = lastToken
      /\ lastLine' = lastLine /\ pending' = p
      /\ hist' = [hist EXCEPT !.presses = @ + 1, !.unasked = 0, !.ours = ours,
                              !.replaced = replaced]
  BY DEF Hold
<1>1. /\ hist'.user = hist.user /\ hist'.rebound = hist.rebound /\ hist'.ours = ours
      /\ hist'.replaced = replaced /\ hist'.entered = hist.entered /\ hist'.presses = 1
      /\ hist'.unasked = 0 /\ hist'.report = hist.report /\ hist'.own = hist.own
  BY <1>0 DEF HistoryOK, History
<1>2. HistoryOK'
  <2>1. hist \in History
    BY DEF HistoryOK
  <2>2. hist.presses + 1 \in Nat /\ 0 \in Nat
    BY <2>1 DEF History
  <2>3. hist' \in History
    BY <1>0, <2>1, <2>2, Zenon DEF History
  <2> QED
    BY <2>3 DEF HistoryOK, HintOK
<1>3. PendingInv'
  <2>1. KeyOK(pending)' <=> KeyOK(p)
    BY <1>0, <1>1 DEF KeyOK, Kept
  <2> QED
    BY <1>0, <1>1, <2>1 DEF PendingInv, PendingOK
<1>4. ModeInv' /\ TokenInv' /\ OursInv' /\ PressInv' /\ AskedInv'
  BY <1>0, <1>1 DEF ModeInv, TokenInv, OursInv, PressInv, AskedInv
<1>5. TypeOK'
  BY <1>0 DEF TypeOK, Pending, HintOK, DaemonOK
<1>6. CorrectionsAreTheUsers' /\ SecondEnterRuns' /\ AtMostOneUnasked'
  BY <1>1 DEF CorrectionsAreTheUsers, SecondEnterRuns, AtMostOneUnasked
<1> QED
  BY <1>2, <1>3, <1>4, <1>5, <1>6

\* The daemon, or the user's key, changes nothing but these.
LEMMA QuietStep ==
  ASSUME ShellInv, DaemonOK', HintOK', AskedInv', PressInv', PendingInv', HistoryOK',
         ModeInv', OursInv', pending' \in Pending, line' \in Line,
         UNCHANGED <<shell, mode, token, lastToken, sequence, lastLine>>,
         pending'.automatic = pending.automatic,
         hist'.report = hist.report, hist'.own = hist.own, hist'.presses <= hist.presses,
         hist'.unasked <= hist.unasked
  PROVE  ShellInv'
<1> USE DEF ShellInv
<1>1. TypeOK'
  BY DEF TypeOK, Pending, HintOK, DaemonOK
<1>2. TokenInv'
  BY DEF TokenInv
<1>3. CorrectionsAreTheUsers' /\ SecondEnterRuns' /\ AtMostOneUnasked'
  BY DEF CorrectionsAreTheUsers, SecondEnterRuns, AtMostOneUnasked, HistoryOK, History
<1> QED
  BY <1>1, <1>2, <1>3

-----------------------------------------------------------------------------
\* The actions.

\* Enter on anything but the pending rewrite, when the line runs.
LEMMA EnterRuns ==
  ASSUME ShellInv, Enter, ~Accepted, NEW unasked \in {0, 1}, Run(Dropped, TRUE, unasked),
         HintOK', DaemonOK', ready' => unasked = 0
  PROVE  ShellInv'
<1>1. mode = "edit" /\ ~hist.ours
  BY NoLine DEF Enter, Accepted, SameText, ShellInv, OursInv, TypeOK
<1>2. /\ Dropped \in Pending /\ Dropped.undo = None /\ Dropped.rewrite = None
      /\ Dropped.automatic = None /\ PendingOK(Dropped) /\ KeyOK(Dropped)
  BY <1>1, DroppedOK DEF ShellInv
<1> QED
  BY <1>1, <1>2, RunStep

LEMMA EnterActions ==
  ASSUME ShellInv,
         \/ EnterAccepts \/ EnterNoHandshake \/ EnterDaemonGone \/ EnterTimesOut
         \/ EnterUndecoded \/ EnterSubmits \/ EnterHints
  PROVE  ShellInv'
<1>0. HintOK /\ DaemonOK /\ pending \in Pending /\ line \in Line /\ Fix[line] \in Line
  BY Parts, ShellAssumption DEF ShellInv, TypeOK
<1>1. CASE EnterAccepts
  <2>1. mode = "edit" /\ Run([ClearPendingRewrite(pending) EXCEPT !.automatic = line], TRUE, hist.unasked)
    BY <1>1 DEF EnterAccepts, Enter
  <2> DEFINE q == ClearPendingRewrite(pending)
             p == [q EXCEPT !.automatic = line]
  <2>2. q \in Pending /\ q.undo = None /\ q.saved = None /\ q.rewrite = None /\ PendingOK(q) /\ KeyOK(q)
    BY <1>0, ClearedRewrite DEF ShellInv, PendingInv
  <2> HIDE DEF q
  <2>3. /\ p \in Pending /\ p.undo = None /\ p.rewrite = None /\ p.automatic = line
        /\ PendingOK(p) /\ KeyOK(p)
    BY <1>0, <2>2 DEF Pending, PendingOK, KeyOK
  <2>4. hist.unasked \in {0, 1} /\ (ready' => hist.unasked = 0)
    BY <1>1 DEF EnterAccepts, ShellInv, AtMostOneUnasked, AskedInv, HistoryOK, History
  <2>5. HintOK' /\ DaemonOK'
    BY <1>0, <1>1, HintsUnchanged DEF EnterAccepts, DaemonOK, daemonVars
  <2>6. Run(p, TRUE, hist.unasked)
    BY <2>1 DEF q
  <2> HIDE DEF p
  <2> QED
    BY <2>1, <2>3, <2>4, <2>5, <2>6, RunStep
<1>2. CASE EnterNoHandshake
  <2>1. HintOK' /\ DaemonOK'
    BY <1>0, <1>2, HintsUnchanged DEF EnterNoHandshake, DaemonOK
  <2> QED
    BY <1>2, <2>1, EnterRuns DEF EnterNoHandshake
<1>3. CASE EnterDaemonGone
  <2>1. HintOK' /\ DaemonOK' /\ ~ready'
    BY <1>0, <1>3, HintsUnchanged DEF EnterDaemonGone, Unready, DaemonOK, daemonVars
  <2>2. hist.unasked + 1 \in {0, 1}
    BY <1>3 DEF EnterDaemonGone, ShellInv, AskedInv
  <2> QED
    BY <1>3, <2>1, <2>2, EnterRuns DEF EnterDaemonGone
<1>4. CASE EnterTimesOut
  <2>1. HintOK' /\ DaemonOK'
    BY <1>0, <1>4, HintsUnchanged DEF EnterTimesOut, Handshake, Handled, DaemonOK
  <2> QED
    BY <1>4, <2>1, EnterRuns DEF EnterTimesOut, Handshake
<1>5. CASE EnterSubmits
  <2>1. HintOK' /\ DaemonOK'
    BY <1>0, <1>5, HintsUnchanged DEF EnterSubmits, Handshake, DaemonOK
  <2> QED
    BY <1>5, <2>1, EnterRuns DEF EnterSubmits, Handshake
<1>6. CASE EnterHints
  <2>1. HintOK' /\ DaemonOK'
    BY <1>0, <1>6, Hinted DEF EnterHints, Handshake, DaemonOK
  <2> QED
    BY <1>6, <2>1, EnterRuns DEF EnterHints, Handshake
<1>7. CASE EnterUndecoded
  <2>1. HintOK' /\ DaemonOK'
    BY <1>0, <1>7, HintsUnchanged DEF EnterUndecoded, Handshake, Handled, DaemonOK
  <2> QED
    BY <1>7, <2>1, EnterRuns DEF EnterUndecoded, Handshake
<1> QED
  BY <1>1, <1>2, <1>3, <1>4, <1>5, <1>6, <1>7

LEMMA HoldActions ==
  ASSUME ShellInv, EnterInterrupts \/ EnterRewrites
  PROVE  ShellInv'
<1>0. HintOK /\ DaemonOK /\ line \in Line /\ line # None /\ Fix[line] \in Line
  BY Parts, NoLine, ShellAssumption DEF ShellInv, TypeOK
<1>1. mode = "edit" /\ ~hist.ours /\ line # pending.rewrite
  BY <1>0 DEF EnterInterrupts, EnterRewrites, Handshake, Enter, Accepted, SameText, ShellInv, OursInv
<1>2. /\ Dropped \in Pending /\ Dropped.undo = None /\ Dropped.saved = None
      /\ Dropped.rewrite = None
      /\ Dropped.automatic = None /\ PendingOK(Dropped) /\ KeyOK(Dropped)
  BY <1>1, DroppedOK DEF ShellInv
<1>3. HintOK' /\ DaemonOK'
  BY <1>0, HintsUnchanged DEF EnterInterrupts, EnterRewrites, Handshake, DaemonOK
<1>4. hist.presses = 0
  BY <1>0, <1>1 DEF EnterInterrupts, EnterRewrites, ShellInv, PressInv
<1>5. CASE EnterInterrupts
  <2>1. hist.ours \in BOOLEAN /\ hist.replaced \in Line \cup {None}
    BY DEF ShellInv, HistoryOK, History
  <2>2. Hold(Dropped, hist.ours, hist.replaced) /\ line' = line
        /\ Verdict[line'] = "confirm" /\ confirmation' = line'
    BY <1>5 DEF EnterInterrupts
  <2> QED
    BY <1>0, <1>1, <1>2, <1>3, <1>4, <2>1, <2>2, HoldStep
<1>6. CASE EnterRewrites
  <2> DEFINE p == [Dropped EXCEPT !.rewrite = Fix[line]]
  <2>1. \/ Hold(p, TRUE, line)
        \/ \E original \in {line, None} :
             /\ original # None \/ shell = "zsh"
             /\ Hold(BindUndo(p, original), TRUE, line)
    BY <1>0, <1>6 DEF EnterRewrites, BindUndecoded
  <2>2. /\ p \in Pending /\ p.undo = None /\ p.saved = None /\ p.rewrite = Fix[line]
        /\ p.automatic = None /\ PendingOK(p) /\ KeyOK(p)
    BY <1>0, <1>2 DEF Pending, PendingOK, KeyOK
  <2>3. line' = Fix[line] /\ Fix[line] # None
    BY <1>0, <1>6, NoLine DEF EnterRewrites
  <2> HIDE DEF p
  <2>4. CASE Hold(p, TRUE, line)
    BY <1>0, <1>1, <1>3, <1>4, <2>2, <2>3, <2>4, HoldStep
  <2>5. ASSUME NEW original \in {line, None}, original # None \/ shell = "zsh",
               Hold(BindUndo(p, original), TRUE, line)
        PROVE  ShellInv'
    <3> DEFINE q == BindUndo(p, original)
    <3>1. Hold(q, TRUE, line)
      BY <2>5
    <3>2. /\ q \in Pending /\ PendingOK(q) /\ KeyOK(q) /\ q.rewrite = p.rewrite
          /\ q.automatic = p.automatic /\ q.undo \in {None, line}
      BY <1>0, <2>2, <2>3, <2>5, Bound
    <3> HIDE DEF q
    <3> QED
      BY <1>0, <1>1, <1>3, <1>4, <2>2, <2>3, <3>1, <3>2, HoldStep
  <2> QED
    BY <2>1, <2>4, <2>5
<1> QED
  BY <1>5, <1>6

LEMMA AcceptStep == ASSUME ShellInv, AcceptElsewhere PROVE ShellInv'
<1>1. /\ mode = "edit" /\ pending \in Pending /\ PendingOK(pending) /\ KeyOK(pending)
      /\ pending.automatic = None /\ (pending.undo # None => pending.undo = hist.replaced)
  BY Parts DEF AcceptElsewhere, ShellInv, PendingInv, ModeInv
<1>2. hist.unasked \in {0, 1} /\ (ready' => hist.unasked = 0)
  BY DEF AcceptElsewhere, ShellInv, AtMostOneUnasked, AskedInv, HistoryOK, History
<1>3. HintOK' /\ DaemonOK'
  BY Parts, HintsUnchanged DEF AcceptElsewhere, DaemonOK, daemonVars
<1>4. Run(pending, FALSE, hist.unasked)
  BY DEF AcceptElsewhere
<1> QED
  BY <1>1, <1>2, <1>3, <1>4, RunStep

\* Histories in which two flags or counters change.
LEMMA HistoryChanges ==
  ASSUME HistoryOK, IsFiniteSet(seen')
  PROVE  /\ hist' = [hist EXCEPT !.ours = FALSE, !.presses = 0] =>
              /\ HistoryOK' /\ ~hist'.ours /\ hist'.presses = 0
              /\ hist'.user = hist.user /\ hist'.rebound = hist.rebound
              /\ hist'.replaced = hist.replaced /\ hist'.entered = hist.entered
              /\ hist'.unasked = hist.unasked /\ hist'.own = hist.own /\ hist'.report = hist.report
         /\ hist' = [hist EXCEPT !.presses = 0, !.unasked = 0] =>
              /\ HistoryOK' /\ hist'.ours = hist.ours /\ hist'.presses = 0
              /\ hist'.user = hist.user /\ hist'.rebound = hist.rebound
              /\ hist'.replaced = hist.replaced /\ hist'.entered = hist.entered
              /\ hist'.unasked = 0 /\ hist'.own = hist.own /\ hist'.report = hist.report
         /\ hist' = [hist EXCEPT !.presses = 0] =>
              /\ HistoryOK' /\ hist'.ours = hist.ours /\ hist'.presses = 0
              /\ hist'.user = hist.user /\ hist'.rebound = hist.rebound
              /\ hist'.replaced = hist.replaced /\ hist'.entered = hist.entered
              /\ hist'.unasked = hist.unasked /\ hist'.own = hist.own /\ hist'.report = hist.report
<1>1. hist \in History /\ 0 \in Nat /\ FALSE \in BOOLEAN
  BY DEF HistoryOK
<1>2. /\ [hist EXCEPT !.ours = FALSE, !.presses = 0] \in History
      /\ [hist EXCEPT !.presses = 0, !.unasked = 0] \in History
      /\ [hist EXCEPT !.presses = 0] \in History
  BY <1>1, Zenon DEF History
<1>3. hist' \in History => HistoryOK'
  BY DEF HistoryOK
<1>4. ASSUME hist' = [hist EXCEPT !.ours = FALSE, !.presses = 0]
      PROVE  /\ ~hist'.ours /\ hist'.presses = 0
             /\ hist'.user = hist.user /\ hist'.rebound = hist.rebound
             /\ hist'.replaced = hist.replaced /\ hist'.entered = hist.entered
             /\ hist'.unasked = hist.unasked /\ hist'.own = hist.own /\ hist'.report = hist.report
  BY <1>1, <1>4 DEF History
<1>5. ASSUME hist' = [hist EXCEPT !.presses = 0, !.unasked = 0]
      PROVE  /\ hist'.ours = hist.ours /\ hist'.presses = 0
             /\ hist'.user = hist.user /\ hist'.rebound = hist.rebound
             /\ hist'.replaced = hist.replaced /\ hist'.entered = hist.entered
             /\ hist'.unasked = 0 /\ hist'.own = hist.own /\ hist'.report = hist.report
  BY <1>1, <1>5 DEF History
<1>6. ASSUME hist' = [hist EXCEPT !.presses = 0]
      PROVE  /\ hist'.ours = hist.ours /\ hist'.presses = 0
             /\ hist'.user = hist.user /\ hist'.rebound = hist.rebound
             /\ hist'.replaced = hist.replaced /\ hist'.entered = hist.entered
             /\ hist'.unasked = hist.unasked /\ hist'.own = hist.own /\ hist'.report = hist.report
  BY <1>1, <1>6 DEF History
<1> QED
  BY <1>2, <1>3, <1>4, <1>5, <1>6

LEMMA EditorActions ==
  ASSUME ShellInv, (\E l \in Line : Edit(l)) \/ UndoRewrite \/ UndoFails
  PROVE  ShellInv'
<1>0. HintOK /\ DaemonOK /\ pending \in Pending /\ hist.presses \in Nat /\ hist.unasked \in Nat
  BY Parts DEF ShellInv, HistoryOK, History
<1>1. HintOK' /\ IsFiniteSet(seen') /\ HistoryOK /\ mode = "edit" /\ pending.automatic = None
  <2>1. UNCHANGED hintVars /\ mode = "edit"
    BY DEF Edit, UndoRewrite, UndoFails, adapterVars
  <2>2. HintOK'
    BY <1>0, <2>1, HintsUnchanged
  <2> QED
    BY <2>1, <2>2 DEF HintOK, ShellInv, ModeInv
<1>2. UNCHANGED <<shell, mode, token, lastToken, sequence, lastLine>>
  BY DEF Edit, UndoRewrite, UndoFails, adapterVars
<1>3. ASSUME NEW l \in Line, Edit(l) PROVE ShellInv'
  <2>1. hist' = [hist EXCEPT !.ours = FALSE, !.presses = 0] /\ line' = l /\ pending' = pending
        /\ UNCHANGED <<ready, daemonVars>>
    BY <1>3 DEF Edit
  <2>2. DaemonOK' /\ AskedInv' /\ PressInv' /\ HistoryOK' /\ ModeInv' /\ OursInv'
    BY <1>0, <1>1, <1>2, <2>1, HistoryChanges
       DEF DaemonOK, daemonVars, ShellInv, AskedInv, PressInv, ModeInv, OursInv
  <2>3. PendingInv'
    BY <1>1, <1>2, <2>1, HistoryChanges DEF ShellInv, PendingInv, PendingOK, KeyOK, Kept
  <2> QED
    BY <1>0, <1>1, <1>2, <2>1, <2>2, <2>3, HistoryChanges, QuietStep
<1>4. CASE UndoRewrite
  <2>1. /\ hist' = [hist EXCEPT !.ours = FALSE, !.presses = 0]
        /\ line' \in Line /\ pending' = ClearPendingRewrite(pending)
        /\ undo' = None /\ UNCHANGED <<ready, up, confirmation>>
    BY <1>0, <1>4 DEF UndoRewrite, DaemonOK
  <2>2. /\ pending' \in Pending /\ pending'.undo = None /\ pending'.rewrite = None
        /\ pending'.automatic = None /\ PendingOK(pending') /\ KeyOK(pending')
    BY <1>0, <2>1, ClearedRewrite DEF ShellInv, PendingInv
  <2>3. DaemonOK' /\ AskedInv' /\ PressInv' /\ HistoryOK' /\ ModeInv' /\ OursInv'
    BY <1>0, <1>1, <1>2, <2>1, <2>2, HistoryChanges
       DEF DaemonOK, ShellInv, AskedInv, PressInv, ModeInv, OursInv
  <2>4. KeyOK(pending)' <=> KeyOK(pending')
    BY <1>1, <1>2, <2>1, HistoryChanges DEF KeyOK, Kept
  <2>5. PendingInv'
    BY <1>1, <1>2, <2>1, <2>2, <2>4, HistoryChanges DEF ShellInv, PendingInv, PendingOK
  <2> QED
    BY <1>0, <1>1, <1>2, <2>1, <2>2, <2>3, <2>5, HistoryChanges, QuietStep
<1>5. CASE UndoFails
  <2>1. /\ hist' = hist /\ line' = line /\ pending' = ClearPendingUndo(pending)
        /\ undo' \in {undo, None} /\ UNCHANGED <<ready, up, confirmation>>
    BY <1>5 DEF UndoFails
  <2>2. /\ pending' \in Pending /\ pending'.undo = None /\ pending'.rewrite = pending.rewrite
        /\ pending'.automatic = pending.automatic /\ PendingOK(pending') /\ KeyOK(pending')
    BY <1>0, <2>1, Cleared DEF ShellInv, PendingInv
  <2>3. DaemonOK' /\ AskedInv' /\ PressInv' /\ HistoryOK' /\ ModeInv' /\ OursInv'
    BY <1>0, <1>1, <1>2, <2>1, <2>2
       DEF DaemonOK, ShellInv, AskedInv, PressInv, ModeInv, OursInv, HistoryOK
  <2>4. KeyOK(pending)' <=> KeyOK(pending')
    BY <1>2, <2>1 DEF KeyOK, Kept
  <2>5. PendingInv'
    BY <1>2, <2>1, <2>2, <2>4 DEF ShellInv, PendingInv, PendingOK
  <2>6. line' \in Line
    BY <2>1 DEF ShellInv, TypeOK
  <2> QED
    BY <1>0, <1>1, <1>2, <2>1, <2>2, <2>3, <2>5, <2>6, QuietStep
<1> QED
  BY <1>3, <1>4, <1>5

LEMMA DaemonActions ==
  ASSUME ShellInv, DaemonStops \/ Expires
  PROVE  ShellInv'
<1>0. HintOK /\ DaemonOK /\ pending \in Pending /\ hist.presses \in Nat /\ hist.unasked \in Nat
      /\ line \in Line /\ HistoryOK
  BY Parts DEF ShellInv, HistoryOK, History, TypeOK
<1>1. UNCHANGED <<shell, mode, line, pending, token, lastToken, sequence, lastLine, hintVars, ready>>
  BY DEF DaemonStops, Expires, adapterVars
<1>2. HintOK' /\ IsFiniteSet(seen')
  <2>1. HintOK'
    BY <1>0, <1>1, HintsUnchanged
  <2> QED
    BY <2>1 DEF HintOK
<1>3. \/ hist' = [hist EXCEPT !.presses = 0, !.unasked = 0]
      \/ hist' = [hist EXCEPT !.presses = 0]
      \/ hist' = hist /\ confirmation' = confirmation
  BY DEF DaemonStops, Expires
<1>4. /\ HistoryOK' /\ hist'.ours = hist.ours
      /\ hist'.presses = 0 \/ (hist'.presses = hist.presses /\ confirmation' = confirmation)
      /\ hist'.user = hist.user /\ hist'.rebound = hist.rebound
      /\ hist'.replaced = hist.replaced /\ hist'.entered = hist.entered
      /\ hist'.unasked \in {0, hist.unasked} /\ hist'.own = hist.own /\ hist'.report = hist.report
  BY <1>0, <1>2, <1>3, HistoryChanges DEF HistoryOK
<1>5. DaemonOK'
  BY <1>0, <1>1 DEF DaemonOK, DaemonStops, Expires
<1>6. AskedInv' /\ PressInv' /\ ModeInv' /\ OursInv'
  BY <1>1, <1>4 DEF ShellInv, AskedInv, PressInv, ModeInv, OursInv
<1>7. PendingInv'
  BY <1>1, <1>4 DEF ShellInv, PendingInv, PendingOK, KeyOK, Kept
<1> QED
  BY <1>0, <1>1, <1>2, <1>4, <1>5, <1>6, <1>7, QuietStep

LEMMA RebindStep ==
  ASSUME ShellInv, NEW w \in Widget, Rebind(w)
  PROVE  ShellInv'
<1>0. /\ HintOK /\ DaemonOK /\ pending \in Pending /\ hist \in History
      /\ hist.presses \in Nat /\ hist.unasked \in Nat /\ hist.rebound \in BOOLEAN /\ line \in Line
  BY Parts DEF ShellInv, HistoryOK, History, TypeOK
<1>1. /\ UNCHANGED <<shell, mode, line, token, lastToken, sequence, lastLine, hintVars, ready, up,
                      confirmation, undo>>
      /\ mode = "run" /\ shell # "bash"
      /\ pending' = [pending EXCEPT !.key = w]
      /\ hist' = [hist EXCEPT !.user = w, !.rebound = @ \/ pending.saved # None]
  BY DEF Rebind, adapterVars, daemonVars
<1>2. HintOK' /\ DaemonOK'
  BY <1>0, <1>1, HintsUnchanged DEF DaemonOK
<1>3. /\ pending' \in Pending /\ pending'.key = w /\ pending'.undo = pending.undo
      /\ pending'.saved = pending.saved /\ pending'.rewrite = pending.rewrite
      /\ pending'.automatic = pending.automatic
  BY <1>0, <1>1 DEF Pending
<1>4. /\ hist'.user = w /\ hist'.rebound = (hist.rebound \/ pending.saved # None)
      /\ hist'.ours = hist.ours /\ hist'.presses = hist.presses /\ hist'.replaced = hist.replaced
      /\ hist'.entered = hist.entered /\ hist'.unasked = hist.unasked /\ hist'.own = hist.own
      /\ hist'.report = hist.report
  BY <1>0, <1>1 DEF History
<1>5. HistoryOK'
  <2>1. (hist.rebound \/ pending.saved # None) \in BOOLEAN
    BY <1>0
  <2>2. hist' \in History
    BY <1>0, <1>1, <2>1, Zenon DEF History
  <2> QED
    BY <1>2, <2>2 DEF HistoryOK, HintOK
<1>6. AskedInv' /\ PressInv' /\ ModeInv' /\ OursInv'
  BY <1>1, <1>3, <1>4 DEF ShellInv, AskedInv, PressInv, ModeInv, OursInv
<1>7. PendingInv'
  <2>1. w # "undo"
    BY DEF Widget
  <2>2. shell = "zsh" => pending.saved = None
    BY <1>1 DEF ShellInv, ModeInv, PendingInv, PendingOK
  <2> QED
    BY <1>1, <1>3, <1>4, <2>1, <2>2 DEF ShellInv, PendingInv, PendingOK, KeyOK, Kept
<1> QED
  BY <1>0, <1>1, <1>2, <1>3, <1>4, <1>5, <1>6, <1>7, QuietStep

\* A command ends.
LEMMA EndStep ==
  ASSUME ShellInv, Succeeds \/ Fails
  PROVE  ShellInv'
<1>0. /\ HintOK /\ DaemonOK /\ pending \in Pending /\ hist \in History /\ line \in Line
      /\ sequence \in Nat /\ token \in 0 .. sequence /\ lastToken \in 0 .. sequence
      /\ Fix[line] \in Line
  BY Parts, ShellAssumption DEF ShellInv, HistoryOK, TypeOK
<1>1. /\ mode = "run" /\ mode' = "edit" /\ lastToken' = 0 /\ UNCHANGED <<shell, line, ready, confirmation>>
      /\ pending' = [pending EXCEPT !.automatic = None]
  BY DEF Succeeds, Fails
<1>2. /\ pending' \in Pending /\ pending'.key = pending.key /\ pending'.undo = pending.undo
      /\ pending'.saved = pending.saved /\ pending'.rewrite = pending.rewrite
      /\ pending'.automatic = None
  BY <1>0, <1>1 DEF Pending
<1>3. DaemonOK' /\ HintOK'
  <2>1. DaemonOK'
    BY <1>0, <1>1 DEF DaemonOK, Succeeds, Fails
  <2>2. UNCHANGED hintVars \/ ShowSuggestion(Fix[line])
    BY DEF Succeeds, Fails, hintVars
  <2> QED
    BY <1>0, <2>1, <2>2, Hinted, HintsUnchanged
<1>4. /\ hist' \in History /\ hist'.user = hist.user /\ hist'.rebound = hist.rebound /\ ~hist'.ours
      /\ hist'.presses = hist.presses /\ hist'.replaced = hist.replaced
      /\ hist'.entered = hist.entered /\ hist'.unasked = hist.unasked
      /\ Succeeds => hist'.own = hist.own /\
           hist'.report = [token |-> TokenTaken, latest |-> sequence, own |-> hist.own,
                           ours |-> hist.ours /\ hist.entered]
      /\ Fails => hist'.own = 0 /\ hist'.report = hist.report
  <2>1. CASE Succeeds
    <3> DEFINE r == [token |-> TokenTaken, latest |-> sequence, own |-> hist.own,
                     ours |-> hist.ours /\ hist.entered]
    <3>1. hist' = [hist EXCEPT !.report = r, !.ours = FALSE]
      BY <2>1 DEF Succeeds
    <3>2. r \in [token : Nat, latest : Nat, own : Nat, ours : BOOLEAN] /\ FALSE \in BOOLEAN
      BY <1>0 DEF TokenTaken, History
    <3> HIDE DEF r
    <3>3. hist' \in History
      BY <1>0, <3>1, <3>2, Zenon DEF History
    <3>4. ~Fails \/ (hist'.own = 0 /\ hist'.report = hist.report)
      BY <1>0 DEF Fails, History
    <3> QED
      BY <1>0, <2>1, <3>1, <3>3, <3>4 DEF History, r
  <2>2. CASE Fails
    <3>1. hist' = [hist EXCEPT !.own = 0, !.ours = FALSE]
      BY <2>2 DEF Fails
    <3>2. 0 \in Nat /\ FALSE \in BOOLEAN
      OBVIOUS
    <3>3. hist' \in History
      BY <1>0, <3>1, <3>2, Zenon DEF History
    <3>4. ~Succeeds \/ (hist'.own = hist.own /\
             hist'.report = [token |-> TokenTaken, latest |-> sequence, own |-> hist.own,
                             ours |-> hist.ours /\ hist.entered])
      BY <1>0 DEF Succeeds, History
    <3> QED
      BY <1>0, <2>2, <3>1, <3>3, <3>4 DEF History
  <2> QED
    BY <2>1, <2>2
<1>5. HistoryOK'
  BY <1>3, <1>4 DEF HistoryOK, HintOK
<1>6. PendingInv'
  BY <1>1, <1>2, <1>4 DEF ShellInv, PendingInv, PendingOK, KeyOK, Kept
<1>7. ModeInv' /\ OursInv' /\ PressInv' /\ AskedInv'
  BY <1>1, <1>2, <1>4 DEF ShellInv, ModeInv, OursInv, PressInv, AskedInv
<1>8. TokenInv' /\ CorrectionsAreTheUsers' /\ token' \in 0 .. sequence' /\ sequence' \in Nat
  <2>1. CASE Succeeds
    <3>1. /\ sequence' = sequence
          /\ token' = IF shell # "zsh" /\ TokenTaken # 0 THEN 0 ELSE token
      BY <2>1 DEF Succeeds
    <3>2. TokenInv /\ OursInv
      BY DEF ShellInv
    <3>3. TokenInv'
      BY <1>0, <1>1, <1>2, <1>4, <2>1, <3>1, <3>2 DEF TokenInv, TokenTaken
    <3>4. CorrectionsAreTheUsers'
      <4>1. /\ hist'.report.token = TokenTaken /\ hist'.report.latest = sequence
            /\ hist'.report.own = hist.own /\ hist'.report.ours = (hist.ours /\ hist.entered)
        BY <1>4, <2>1
      <4>2. ASSUME TokenTaken # 0
            PROVE  TokenTaken = sequence /\ hist.own = 1 /\ ~(hist.ours /\ hist.entered)
        <5>1. CASE shell = "zsh"
          BY <1>1, <3>2, <4>2, <5>1 DEF TokenInv, OursInv, TokenTaken
        <5>2. CASE shell # "zsh"
          <6>1. shell # "bash" /\ pending.automatic = None /\ TokenTaken = token
            BY <4>2, <5>2 DEF TokenTaken
          <6> QED
            BY <1>1, <3>2, <4>2, <5>2, <6>1 DEF TokenInv, OursInv
        <5> QED
          BY <5>1, <5>2
      <4> QED
        BY <4>1, <4>2 DEF CorrectionsAreTheUsers
    <3> QED
      BY <1>0, <3>1, <3>3, <3>4
  <2>2. CASE Fails
    <3>1. \/ shell = "bash" /\ sequence' \in {sequence, sequence + 1} /\ token' = token
          \/ shell # "bash" /\ sequence' = sequence + 1 /\ token' = sequence'
      BY <2>2 DEF Fails, BashSkips
    <3>2. TokenInv /\ CorrectionsAreTheUsers
      BY DEF ShellInv
    <3>3. TokenInv'
      BY <1>0, <1>1, <1>2, <1>4, <2>2, <3>1, <3>2 DEF TokenInv
    <3>4. CorrectionsAreTheUsers'
      BY <1>4, <2>2, <3>2 DEF CorrectionsAreTheUsers
    <3> QED
      BY <1>0, <3>1, <3>3, <3>4
  <2> QED
    BY <2>1, <2>2
<1>9. TypeOK'
  <2>1. lastLine' \in Line \cup {None}
    BY <1>0 DEF Succeeds, Fails, ShellInv, TypeOK
  <2> QED
    BY <1>0, <1>1, <1>2, <1>3, <1>8, <2>1 DEF ShellInv, TypeOK, Pending, HintOK, DaemonOK
<1>10. SecondEnterRuns' /\ AtMostOneUnasked'
  BY <1>4 DEF ShellInv, SecondEnterRuns, AtMostOneUnasked
<1> QED
  BY <1>5, <1>6, <1>7, <1>8, <1>9, <1>10 DEF ShellInv

-----------------------------------------------------------------------------
\* The invariant, and the properties that follow from it.

LEMMA InitInv == Init => ShellInv
<1> SUFFICES ASSUME Init PROVE ShellInv
  OBVIOUS
<1>1. PICK w \in Widget : pending = [NoPending EXCEPT !.key = w] /\ hist = [NoHistory EXCEPT !.user = w]
  BY DEF Init
<1>2. /\ pending = [rewrite |-> None, undo |-> None, key |-> w, saved |-> None, automatic |-> None]
      /\ pending \in Pending
  BY <1>1 DEF NoPending, Pending
<1>3. hist \in History /\ hist.user = w /\ ~hist.rebound /\ ~hist.ours /\ hist.presses = 0
      /\ hist.unasked = 0 /\ hist.own = 0 /\ hist.report.token = 0
  BY <1>1 DEF NoHistory, History
<1>4. IsFiniteSet({}) /\ Cardinality({}) = 0
  BY FS_EmptySet
<1>5. TypeOK /\ HistoryOK
  <2>1. seen = {} /\ count = 0 /\ 0 <= DiagnosticLimit
    BY ShellAssumption DEF Init
  <2>2. HistoryOK
    BY <1>3, <1>4, <2>1 DEF HistoryOK
  <2>3. count = Cardinality(seen) /\ count <= DiagnosticLimit /\ seen \subseteq Line
    BY <1>4, <2>1
  <2> QED
    <3>1. 0 \in Nat /\ 0 \in 0 .. 0
      OBVIOUS
    <3>2. shell \in Shells /\ mode \in {"edit", "run"} /\ line \in Line
      BY DEF Init
    <3>3. /\ sequence \in Nat /\ token \in 0 .. sequence /\ lastToken \in 0 .. sequence
          /\ lastLine \in Line \cup {None}
      BY <3>1 DEF Init
    <3>4. /\ ready \in BOOLEAN /\ up \in BOOLEAN
          /\ confirmation \in Line \cup {None} /\ undo \in Line \cup {None}
      BY DEF Init
    <3> QED
      BY <1>2, <2>2, <2>3, <3>2, <3>3, <3>4 DEF TypeOK, Pending
<1>6. PendingInv
  BY <1>2, <1>3 DEF PendingInv, PendingOK, KeyOK, Kept, Widget
<1>7. ModeInv /\ TokenInv /\ OursInv /\ PressInv /\ AskedInv
  BY <1>2, <1>3 DEF Init, ModeInv, TokenInv, OursInv, PressInv, AskedInv
<1>8. CorrectionsAreTheUsers /\ SecondEnterRuns /\ AtMostOneUnasked
  BY <1>3 DEF CorrectionsAreTheUsers, SecondEnterRuns, AtMostOneUnasked
<1> QED
  BY <1>5, <1>6, <1>7, <1>8 DEF ShellInv

\* Every reachable state of an adapter, its user and its daemon satisfies the
\* inductive invariant ShellInv.
THEOREM ShellInvariant == Spec => []ShellInv
<1>1. ShellInv /\ [Next]_vars => ShellInv'
  <2> SUFFICES ASSUME ShellInv, [Next]_vars PROVE ShellInv'
    OBVIOUS
  <2>1. CASE UNCHANGED vars
    BY <2>1 DEF vars, adapterVars, hintVars, daemonVars, ShellInv, TypeOK, HistoryOK, PendingInv,
       PendingOK, KeyOK, Kept, ModeInv, TokenInv, OursInv, PressInv, AskedInv,
       CorrectionsAreTheUsers, SecondEnterRuns, AtMostOneUnasked
  <2>2. CASE \/ EnterAccepts \/ EnterNoHandshake \/ EnterDaemonGone \/ EnterTimesOut
             \/ EnterUndecoded \/ EnterSubmits \/ EnterHints
    BY <2>2, EnterActions
  <2>3. CASE EnterInterrupts \/ EnterRewrites
    BY <2>3, HoldActions
  <2>4. CASE AcceptElsewhere
    BY <2>4, AcceptStep
  <2>5. CASE (\E l \in Line : Edit(l)) \/ UndoRewrite \/ UndoFails
    BY <2>5, EditorActions
  <2>6. CASE DaemonStops \/ Expires
    BY <2>6, DaemonActions
  <2>7. CASE \E w \in Widget : Rebind(w)
    BY <2>7, RebindStep
  <2>8. CASE Succeeds \/ Fails
    BY <2>8, EndStep
  <2> QED
    BY <2>1, <2>2, <2>3, <2>4, <2>5, <2>6, <2>7, <2>8 DEF Next
<1> QED
  BY <1>1, InitInv, PTL DEF Spec

\* The adapters' state keeps its type and hints stay within their limit.
THEOREM ShellTypes == Spec => []TypeOK
  BY ShellInvariant, PTL DEF ShellInv

\* What is reported as a correction is the user's own, and of the latest failure.
THEOREM CorrectionsOwn == Spec => []CorrectionsAreTheUsers
  BY ShellInvariant, PTL DEF ShellInv

\* The pending undo belongs to the pending rewrite.
THEOREM UndoFits == Spec => []UndoFitsRewrite
<1>1. ShellInv => UndoFitsRewrite
  BY DEF ShellInv, PendingInv, PendingOK, UndoFitsRewrite
<1> QED
  BY <1>1, ShellInvariant, PTL

\* Ctrl-G is lent to the adapter only while a rewrite is pending, and is what
\* the user last bound it to otherwise.
THEOREM KeyLent == Spec => []UndoKeyIsLent
<1>1. ShellInv => UndoKeyIsLent
  BY ShellAssumption DEF ShellInv, TypeOK, PendingInv, PendingOK, KeyOK, Kept, UndoKeyIsLent
<1> QED
  BY <1>1, ShellInvariant, PTL

\* Nothing is pending while a command runs that was accepted with Enter.
THEOREM NothingPending == Spec => []NothingPendingWhileRunning
<1>1. ShellInv => NothingPendingWhileRunning
  BY DEF ShellInv, PendingInv, PendingOK, ModeInv, NothingPendingWhileRunning
<1> QED
  BY <1>1, ShellInvariant, PTL

\* Of two Enters in a row, with no undo, edit or lapse of a confirmation between
\* them, the second runs what the first has left in the buffer.
THEOREM SecondEnter == Spec => []SecondEnterRuns
  BY ShellInvariant, PTL DEF ShellInv

\* At most one line runs unasked after the daemon has gone.
THEOREM OneUnasked == Spec => []AtMostOneUnasked
  BY ShellInvariant, PTL DEF ShellInv

=============================================================================
