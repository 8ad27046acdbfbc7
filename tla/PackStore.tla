------------------------------ MODULE PackStore ------------------------------
(***************************************************************************)
(* Installed packs, internal/packs and the `solomon pack` commands: the    *)
(* directory with a pack file and a detached signature for each installed  *)
(* pack, the keyring of trusted publishers, the commands that change them, *)
(* and the processes that load and verify every installed pack             *)
(* (runtimePackResolver, in `daemon serve` and `check`).                   *)
(*                                                                         *)
(* A pack is a record: id and version name its file, rules are the         *)
(* command and pattern pairs that Resolve compares, distinct says that no  *)
(* two of its own rules share one, valid is the verdict of Compile, and    *)
(* build tells apart packs with the same id and version.  A signature is   *)
(* the pack whose bytes it covers and the key it was made with.  Nothing   *)
(* locks the directory or the keyring: every change of a file, and every   *)
(* look at the files of one pack, is a step of its own.  That a command    *)
(* also asks a running daemon to restart is modelled in DaemonEndpoint.    *)
(***************************************************************************)
EXTENDS Naturals

CONSTANTS
  Packs,       \* the pack files a user may have
  Signatures,  \* the signature files that exist
  Bundled,     \* the packs built into the program
  Publishers, Keys,
  Keyrings,    \* keyring files a user may start with
  Command,     \* `solomon pack` processes
  Loader,      \* processes that load the installed packs
  NoFile, NoKey, Nothing

Name(p) == <<p.id, p.version>>
Names == {Name(p) : p \in Packs}
Keyring == [trusted : [Publishers -> Keys \cup {NoKey}], revoked : SUBSET Publishers]

ASSUME PackAssumption ==
  /\ \A p \in Packs : p.publisher \in Publishers /\ p.valid \in BOOLEAN /\ p.distinct \in BOOLEAN
  /\ Signatures \subseteq [of : Packs, by : Keys]
  /\ Keyrings \subseteq Keyring
  /\ NoFile \notin Packs \cup Signatures
  /\ NoKey \notin Keys
  /\ Nothing \notin Keyring

VARIABLES
  json, sig,  \* the pack file and the signature file under each name
  keyring,    \* the keyring file
  pc, work,   \* where each command is, and what it works on
  lpc,        \* where each loader is
  lkeys,      \* the keyring it has loaded
  todo,       \* names it has still to read or to verify
  got,        \* packs it has decoded
  everTrusted,\* history: the keys each publisher has ever been trusted with
  overlapped, \* history: two commands have overlapped
  cut,        \* history: an uninstall has ended between its two removals
  disturbed   \* history: loaders since whose start a file has changed

files == <<json, sig>>
command == <<pc, work>>
loader == <<lpc, lkeys, todo, got>>
history == <<everTrusted, overlapped, cut, disturbed>>
vars == <<files, keyring, command, loader, history>>

Busy(c) == pc[c] # "idle"

-----------------------------------------------------------------------------
(***************************************************************************)
(* Verification and resolution.                                            *)
(***************************************************************************)

\* Mutant: any signature by the publisher's key will do.
VerifyPublisherSignature_AnyBytes(payload, s, publisher, ring) ==
  /\ publisher \notin ring.revoked
  /\ ring.trusted[publisher] # NoKey
  /\ s # NoFile
  /\ s.by = ring.trusted[publisher]

VerifyPublisherSignature(payload, s, publisher, ring) ==
  /\ publisher \notin ring.revoked
  /\ ring.trusted[publisher] # NoKey
  /\ s = [of |-> payload, by |-> ring.trusted[publisher]]

\* Two packs with one identifier, or two rules with one command and pattern,
\* of two packs or of one.
Conflict(p, q) == p # q /\ (p.id = q.id \/ p.rules \cap q.rules # {})
Resolve(packs) ==
  /\ \A p \in packs : p.distinct
  /\ \A p, q \in packs : ~Conflict(p, q)

Installed == {json[n] : n \in {m \in Names : json[m] # NoFile}}

-----------------------------------------------------------------------------
(***************************************************************************)
(* What the steps do to history.                                           *)
(***************************************************************************)

TrustedPairs(ring) == {e \in Publishers \X Keys : ring.trusted[e[1]] = e[2]}

\* A command begins; it overlaps every command that has not ended.
Starts(c) ==
  /\ ~Busy(c)
  /\ overlapped' = (overlapped \/ \E d \in Command \ {c} : Busy(d))

\* A file has changed since each loader began.
Disturb == disturbed' = Loader

Goes(c, stage, what) ==
  /\ pc' = [pc EXCEPT ![c] = stage]
  /\ work' = [work EXCEPT ![c] = what]

Ends(c) == Goes(c, "idle", Nothing)

-----------------------------------------------------------------------------
(***************************************************************************)
(* `solomon pack install`: packCommand and InstallVerified.                *)
(***************************************************************************)

\* The keyring and the two arguments are read; the pack is compiled and
\* verified.
InstallBegin(c, p, s) ==
  /\ Starts(c)
  /\ p.valid
  /\ VerifyPublisherSignature(p, s, p.publisher, keyring)
  /\ Goes(c, "check", [pack |-> p, signature |-> s])
  /\ UNCHANGED <<files, keyring, loader, everTrusted, cut, disturbed>>

\* Lstat of both names.
InstallCheck(c) ==
  LET n == Name(work[c].pack)
  IN  /\ pc[c] = "check"
      /\ IF json[n] = NoFile /\ sig[n] = NoFile THEN Goes(c, "sign", work[c]) ELSE Ends(c)
      /\ UNCHANGED <<files, keyring, loader, history>>

\* Mutant: the pack is written before its signature.
InstallSignature_PackFirst(c) ==
  /\ pc[c] = "sign"
  /\ json' = [json EXCEPT ![Name(work[c].pack)] = work[c].pack]
  /\ Goes(c, "write", work[c])
  /\ Disturb
  /\ UNCHANGED <<sig, keyring, loader, everTrusted, overlapped, cut>>

\* writeInstalledFile renames a temporary file to the name, or fails.
InstallSignature(c) ==
  /\ pc[c] = "sign"
  /\ \/ /\ sig' = [sig EXCEPT ![Name(work[c].pack)] = work[c].signature]
        /\ Goes(c, "write", work[c])
        /\ Disturb
     \/ Ends(c) /\ UNCHANGED <<sig, disturbed>>
  /\ UNCHANGED <<json, keyring, loader, everTrusted, overlapped, cut>>

\* A pack that cannot be written takes its signature with it, if that can be
\* removed.
InstallPack(c) ==
  /\ pc[c] = "write"
  /\ \/ /\ json' = [json EXCEPT ![Name(work[c].pack)] = work[c].pack]
        /\ UNCHANGED sig
     \/ /\ sig' \in {sig, [sig EXCEPT ![Name(work[c].pack)] = NoFile]}
        /\ UNCHANGED json
  /\ Disturb
  /\ Ends(c)
  /\ UNCHANGED <<keyring, loader, everTrusted, overlapped, cut>>

-----------------------------------------------------------------------------
(***************************************************************************)
(* `solomon pack uninstall`: Uninstall.                                    *)
(***************************************************************************)

UninstallBegin(c, n) ==
  /\ Starts(c)
  /\ IF json[n] # NoFile /\ sig[n] # NoFile THEN Goes(c, "unsign", [name |-> n]) ELSE Ends(c)
  /\ UNCHANGED <<files, keyring, loader, everTrusted, cut, disturbed>>

\* Removing a file that is no longer there is an error, and so may any
\* removal be: the command then ends where it is.
UninstallSignature(c) ==
  /\ pc[c] = "unsign"
  /\ \/ /\ sig[work[c].name] # NoFile
        /\ sig' = [sig EXCEPT ![work[c].name] = NoFile]
        /\ Goes(c, "remove", work[c])
        /\ Disturb
     \/ Ends(c) /\ UNCHANGED <<sig, disturbed>>
  /\ UNCHANGED <<json, keyring, loader, everTrusted, overlapped, cut>>

UninstallPack(c) ==
  /\ pc[c] = "remove"
  /\ \/ /\ json[work[c].name] # NoFile
        /\ json' = [json EXCEPT ![work[c].name] = NoFile]
        /\ Disturb
        /\ UNCHANGED cut
     \/ cut' = TRUE /\ UNCHANGED <<json, disturbed>>
  /\ Ends(c)
  /\ UNCHANGED <<sig, keyring, loader, everTrusted, overlapped>>

-----------------------------------------------------------------------------
(***************************************************************************)
(* `solomon pack trust`: packTrustCommand and the keyring.                 *)
(***************************************************************************)

\* Keyring.Add and Keyring.Remove; Nothing: the command reports an error.
Add(ring, publisher, key) ==
  IF ring.trusted[publisher] # NoKey THEN Nothing
  ELSE [ring EXCEPT !.trusted[publisher] = key]

Remove(ring, publisher) ==
  IF ring.trusted[publisher] = NoKey THEN Nothing
  ELSE [ring EXCEPT !.trusted[publisher] = NoKey]

TrustBegin(c, publisher, key) ==
  LET changed == IF key = NoKey THEN Remove(keyring, publisher)
                 ELSE Add(keyring, publisher, key)
  IN  /\ Starts(c)
      /\ changed # Nothing
      /\ Goes(c, "trust", [ring |-> changed])
      /\ UNCHANGED <<files, keyring, loader, everTrusted, cut, disturbed>>

\* WriteKeyring.
TrustWrite(c) ==
  /\ pc[c] = "trust"
  /\ keyring' = work[c].ring
  /\ everTrusted' = everTrusted \cup TrustedPairs(work[c].ring)
  /\ Disturb
  /\ Ends(c)
  /\ UNCHANGED <<files, loader, overlapped, cut>>

-----------------------------------------------------------------------------
\* A command is killed.
Crash(c) ==
  /\ Busy(c)
  /\ Ends(c)
  /\ cut' = (cut \/ pc[c] = "remove")
  /\ UNCHANGED <<files, keyring, loader, everTrusted, overlapped, disturbed>>

-----------------------------------------------------------------------------
(***************************************************************************)
(* Loading: runtimePackResolver and LoadInstalledVerified.                 *)
(***************************************************************************)

LoaderAt(l, stage) == lpc' = [lpc EXCEPT ![l] = stage]

LoadKeyring(l) ==
  /\ lpc[l] \in {"idle", "done", "failed"}
  /\ LoaderAt(l, "list")
  /\ lkeys' = [lkeys EXCEPT ![l] = keyring]
  /\ todo' = [todo EXCEPT ![l] = {}]
  /\ got' = [got EXCEPT ![l] = {}]
  /\ disturbed' = disturbed \ {l}
  /\ UNCHANGED <<files, keyring, command, everTrusted, overlapped, cut>>

\* Mutant: entries are not told apart by their suffix.
ReadDir_AnySuffix(l) ==
  /\ lpc[l] = "list"
  /\ LoaderAt(l, "read")
  /\ todo' = [todo EXCEPT ![l] = {n \in Names : json[n] # NoFile \/ sig[n] # NoFile}]
  /\ UNCHANGED <<files, keyring, command, lkeys, got, history>>

\* ReadDir; signature files are passed over.
ReadDir(l) ==
  /\ lpc[l] = "list"
  /\ LoaderAt(l, "read")
  /\ todo' = [todo EXCEPT ![l] = {n \in Names : json[n] # NoFile}]
  /\ UNCHANGED <<files, keyring, command, lkeys, got, history>>

\* Load and Compile of one entry; it may be gone by now.  Its name is compared
\* with the one that the pack asks for.
LoadPack(l, n) ==
  /\ lpc[l] = "read" /\ n \in todo[l]
  /\ todo' = [todo EXCEPT ![l] = @ \ {n}]
  /\ IF json[n] # NoFile /\ Name(json[n]) = n /\ json[n].valid
     THEN got' = [got EXCEPT ![l] = @ \cup {json[n]}] /\ UNCHANGED lpc
     ELSE LoaderAt(l, "failed") /\ UNCHANGED got
  /\ UNCHANGED <<files, keyring, command, lkeys, history>>

ResolveInstalled(l) ==
  /\ lpc[l] = "read" /\ todo[l] = {}
  /\ LoaderAt(l, IF Resolve(got[l]) THEN "verify" ELSE "failed")
  /\ todo' = [todo EXCEPT ![l] = {Name(p) : p \in got[l]}]
  /\ UNCHANGED <<files, keyring, command, lkeys, got, history>>

\* Mutant: a signature is only looked for.
Verified_Present(l, p) == json[Name(p)] # NoFile /\ sig[Name(p)] # NoFile

\* The pack file is read a second time, and these bytes are verified with the
\* key of the publisher that was read the first time.
Verified(l, p) ==
  /\ json[Name(p)] # NoFile
  /\ VerifyPublisherSignature(json[Name(p)], sig[Name(p)], p.publisher, lkeys[l])

VerifyPack(l, p) ==
  /\ lpc[l] = "verify" /\ p \in got[l] /\ Name(p) \in todo[l]
  /\ todo' = [todo EXCEPT ![l] = @ \ {Name(p)}]
  /\ IF Verified(l, p) THEN UNCHANGED lpc ELSE LoaderAt(l, "failed")
  /\ UNCHANGED <<files, keyring, command, lkeys, got, history>>

\* NewRuntimeResolverWithInstalled: installed and bundled packs together.
LoadEnd(l) ==
  /\ lpc[l] = "verify" /\ todo[l] = {}
  /\ LoaderAt(l, IF Resolve(Bundled \cup got[l]) THEN "done" ELSE "failed")
  /\ UNCHANGED <<files, keyring, command, lkeys, todo, got, history>>

-----------------------------------------------------------------------------
Init ==
  /\ json = [n \in Names |-> NoFile]
  /\ sig = [n \in Names |-> NoFile]
  /\ keyring \in Keyrings
  /\ pc = [c \in Command |-> "idle"]
  /\ work = [c \in Command |-> Nothing]
  /\ lpc = [l \in Loader |-> "idle"]
  /\ lkeys = [l \in Loader |-> keyring]
  /\ todo = [l \in Loader |-> {}]
  /\ got = [l \in Loader |-> {}]
  /\ everTrusted = TrustedPairs(keyring)
  /\ overlapped = FALSE /\ cut = FALSE /\ disturbed = {}

Next ==
  \/ \E c \in Command :
       \/ \E p \in Packs, s \in Signatures : InstallBegin(c, p, s)
       \/ InstallCheck(c) \/ InstallSignature(c) \/ InstallPack(c)
       \/ \E n \in Names : UninstallBegin(c, n)
       \/ UninstallSignature(c) \/ UninstallPack(c)
       \/ \E publisher \in Publishers, key \in Keys \cup {NoKey} :
            TrustBegin(c, publisher, key)
       \/ TrustWrite(c)
       \/ Crash(c)
  \/ \E l \in Loader :
       \/ LoadKeyring(l) \/ ReadDir(l) \/ ResolveInstalled(l) \/ LoadEnd(l)
       \/ \E n \in Names : LoadPack(l, n)
       \/ \E p \in Packs : VerifyPack(l, p)

Spec == Init /\ [][Next]_vars

-----------------------------------------------------------------------------
(***************************************************************************)
(* Properties.                                                             *)
(***************************************************************************)

Stage == {"idle", "check", "sign", "write", "unsign", "remove", "trust"}
LoadStage == {"idle", "list", "read", "verify", "done", "failed"}
Installing == [pack : Packs, signature : Signatures]

\* Every variable has its type, and a command holds what its stage works on.
TypeOK ==
  /\ json \in [Names -> Packs \cup {NoFile}]
  /\ sig \in [Names -> Signatures \cup {NoFile}]
  /\ keyring \in Keyring
  /\ pc \in [Command -> Stage] /\ DOMAIN work = Command
  /\ \A c \in Command :
       /\ pc[c] \in {"check", "sign", "write"} => work[c] \in Installing
       /\ pc[c] \in {"unsign", "remove"} => work[c] \in [name : Names]
       /\ pc[c] = "trust" => work[c] \in [ring : Keyring]
  /\ lpc \in [Loader -> LoadStage]
  /\ lkeys \in [Loader -> Keyring]
  /\ todo \in [Loader -> SUBSET Names]
  /\ got \in [Loader -> SUBSET Packs]
  /\ everTrusted \subseteq Publishers \X Keys
  /\ overlapped \in BOOLEAN /\ cut \in BOOLEAN
  /\ disturbed \subseteq Loader

Signed(p) == \E s \in Signatures : s.of = p /\ <<p.publisher, s.by>> \in everTrusted

\* Whatever overlaps, fails or crashes, a pack that a process has loaded was
\* signed by a key its publisher has been trusted with: InstallVerified lets
\* nothing else into the directory, and LoadInstalledVerified reads only that.
LoadedWereSigned ==
  \A l \in Loader : lpc[l] = "done" => \A p \in got[l] : Signed(p)

\* A load beside which nothing changes returns all installed packs, each
\* signed by the key its publisher is trusted with now, and no two of them, or
\* of them and the bundled ones, contend for a command.
QuietLoadsAreVerified ==
  \A l \in Loader \ disturbed : lpc[l] = "done" =>
    /\ got[l] = Installed
    /\ \A p \in Installed : VerifyPublisherSignature(p, sig[Name(p)], p.publisher, keyring)
    /\ Resolve(Bundled \cup Installed)

BeingRemoved(n) == \E c \in Command : pc[c] = "remove" /\ work[c].name = n

\* Commands that do not overlap keep each installed pack with its signature,
\* wherever an install is killed or fails: it writes the signature first.
\* (An uninstall that ends between its two removals is the exception.)
PairsIntact ==
  ~overlapped /\ ~cut =>
    \A n \in Names : json[n] # NoFile /\ ~BeingRemoved(n) =>
      sig[n] # NoFile /\ sig[n].of = json[n]

MayFail ==
  \/ \E p \in Installed : \/ p.publisher \in keyring.revoked
                          \/ keyring.trusted[p.publisher] # sig[Name(p)].by
  \/ ~Resolve(Bundled \cup Installed)

\* Then a load beside which nothing changes fails only for a publisher that is
\* not trusted any more with the key that signed an installed pack, or for
\* packs that contend: an install that was cut short does not break loading.
LoadFailuresExplained ==
  ~overlapped /\ ~cut =>
    \A l \in Loader \ disturbed :
      lpc[l] = "failed" /\ (\A n \in Names : ~BeingRemoved(n)) => MayFail

=============================================================================
