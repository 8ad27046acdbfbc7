--------------------------- MODULE PackStoreProofs ---------------------------
(***************************************************************************)
(* Proofs about installed packs and trust, for any packs, signatures,      *)
(* publishers and keys, and any number of commands and loaders.            *)
(***************************************************************************)
EXTENDS PackStore, TLAPS

Present == {n \in Names : json[n] # NoFile}

\* What is trusted now is part of what has been trusted.
KeyInv == TrustedPairs(keyring) \subseteq everTrusted

\* Every pack file has its canonical name, compiles and was signed; so is
\* everything that an install is about to write and that a loader has read.
DirInv ==
  \A n \in Names : json[n] # NoFile =>
    Name(json[n]) = n /\ json[n].valid /\ Signed(json[n])
WorkInv ==
  \A c \in Command : pc[c] \in {"check", "sign", "write"} =>
    /\ work[c].signature.of = work[c].pack
    /\ work[c].pack.valid
    /\ Signed(work[c].pack)
GotInv == \A l \in Loader : \A p \in got[l] : Signed(p)
SignedInv == KeyInv /\ DirInv /\ WorkInv /\ GotInv

\* Without an overlap one command is busy, and what it has looked at is as it
\* left it.
StageInv ==
  ~overlapped =>
    /\ \A c, d \in Command : Busy(c) /\ Busy(d) => c = d
    /\ \A c \in Command :
         /\ pc[c] \in {"sign", "write"} => json[Name(work[c].pack)] = NoFile
         /\ pc[c] = "write" => sig[Name(work[c].pack)] = work[c].signature

\* What a loader has read and verified is what is there, as long as no file
\* has changed.
LoadInv ==
  \A l \in Loader \ disturbed :
    /\ lpc[l] # "idle" => lkeys[l] = keyring
    /\ lpc[l] = "list" => got[l] = {}
    /\ lpc[l] = "read" =>
         todo[l] \subseteq Present /\ got[l] = {json[n] : n \in Present \ todo[l]}
    /\ lpc[l] \in {"verify", "done"} => got[l] = Installed
    /\ lpc[l] = "verify" =>
         \A n \in Present \ todo[l] :
           VerifyPublisherSignature(json[n], sig[n], json[n].publisher, keyring)
    /\ lpc[l] = "done" =>
         /\ \A n \in Present :
              VerifyPublisherSignature(json[n], sig[n], json[n].publisher, keyring)
         /\ Resolve(Bundled \cup Installed)
    /\ lpc[l] = "failed" /\ ~overlapped /\ ~cut =>
         MayFail \/ \E n \in Names : BeingRemoved(n)

PackInv == TypeOK /\ SignedInv /\ StageInv /\ PairsIntact /\ LoadInv

-----------------------------------------------------------------------------
\* Next, one action at a time.
CommandStep(c) ==
  \/ \E p \in Packs, s \in Signatures : InstallBegin(c, p, s)
  \/ InstallCheck(c) \/ InstallSignature(c) \/ InstallPack(c)
  \/ \E n \in Names : UninstallBegin(c, n)
  \/ UninstallSignature(c) \/ UninstallPack(c)
  \/ \E publisher \in Publishers, key \in Keys \cup {NoKey} : TrustBegin(c, publisher, key)
  \/ TrustWrite(c) \/ Crash(c)
LoaderStep(l) ==
  \/ LoadKeyring(l) \/ ReadDir(l) \/ ResolveInstalled(l) \/ LoadEnd(l)
  \/ \E n \in Names : LoadPack(l, n)
  \/ \E p \in Packs : VerifyPack(l, p)

LEMMA NextCases ==
  Next <=> (\E c \in Command : CommandStep(c)) \/ (\E l \in Loader : LoaderStep(l))
  BY DEF Next, CommandStep, LoaderStep

-----------------------------------------------------------------------------
\* Types.

LEMMA NameType == ASSUME NEW p \in Packs PROVE Name(p) \in Names
  BY DEF Names

\* A changed keyring is a keyring.
LEMMA ChangedRing ==
  ASSUME NEW ring \in Keyring, NEW publisher \in Publishers, NEW key \in Keys \cup {NoKey},
         NEW changed, changed # Nothing,
         changed = IF key = NoKey THEN Remove(ring, publisher) ELSE Add(ring, publisher, key)
  PROVE  changed \in Keyring
<1>1. changed = [ring EXCEPT !.trusted[publisher] = key]
  BY DEF Remove, Add
<1> QED
  BY <1>1, Zenon DEF Keyring

LEMMA GoesTypes ==
  ASSUME TypeOK, NEW c \in Command, NEW stage \in Stage, NEW what, Goes(c, stage, what),
         stage \in {"check", "sign", "write"} => what \in Installing,
         stage \in {"unsign", "remove"} => what \in [name : Names],
         stage = "trust" => what \in [ring : Keyring]
  PROVE  /\ pc' \in [Command -> Stage] /\ DOMAIN work' = Command
         /\ \A d \in Command :
              /\ pc'[d] \in {"check", "sign", "write"} => work'[d] \in Installing
              /\ pc'[d] \in {"unsign", "remove"} => work'[d] \in [name : Names]
              /\ pc'[d] = "trust" => work'[d] \in [ring : Keyring]
  BY DEF TypeOK, Goes

LEMMA TypesCommand ==
  ASSUME TypeOK, NEW c \in Command, CommandStep(c)
  PROVE  TypeOK'
<1> USE PackAssumption
<1>0. DOMAIN work = Command /\ "idle" \in Stage /\ pc[c] \in Stage
  BY DEF TypeOK, Stage
<1>1. ASSUME NEW p \in Packs, NEW s \in Signatures, InstallBegin(c, p, s)
      PROVE  TypeOK'
  <2>1. [pack |-> p, signature |-> s] \in Installing /\ "check" \in Stage
    BY DEF Installing, Stage
  <2> QED
    BY <1>1, <2>1, GoesTypes DEF InstallBegin, Starts, TypeOK, files, loader
<1>2. CASE InstallCheck(c)
  <2>1. "sign" \in Stage /\ work[c] \in Installing
    BY <1>2 DEF InstallCheck, Stage, TypeOK
  <2>2. CASE Goes(c, "sign", work[c])
    BY <1>2, <2>1, <2>2, GoesTypes DEF InstallCheck, TypeOK, files, loader, history
  <2>3. CASE Ends(c)
    BY <1>0, <1>2, <2>3, GoesTypes DEF InstallCheck, Ends, TypeOK, files, loader, history
  <2> QED
    BY <1>2, <2>2, <2>3 DEF InstallCheck
<1>3. CASE InstallSignature(c)
  <2>1. "write" \in Stage /\ work[c] \in Installing
    BY <1>3 DEF InstallSignature, Stage, TypeOK
  <2>2. sig' \in [Names -> Signatures \cup {NoFile}]
    BY <1>3, <2>1, NameType DEF InstallSignature, TypeOK, Installing
  <2>3. disturbed' \subseteq Loader
    BY <1>3 DEF InstallSignature, Disturb, TypeOK
  <2>4. CASE Goes(c, "write", work[c])
    BY <1>3, <2>1, <2>2, <2>3, <2>4, GoesTypes DEF InstallSignature, TypeOK, loader
  <2>5. CASE Ends(c)
    BY <1>0, <1>3, <2>2, <2>3, <2>5, GoesTypes DEF InstallSignature, Ends, TypeOK, loader
  <2> QED
    BY <1>3, <2>4, <2>5 DEF InstallSignature
<1>4. CASE InstallPack(c)
  <2>1. work[c] \in Installing
    BY <1>4 DEF InstallPack, TypeOK
  <2>2. work[c].pack \in Packs /\ Name(work[c].pack) \in Names
    BY <2>1, NameType DEF Installing
  <2>3. sig' \in [Names -> Signatures \cup {NoFile}] /\ json' \in [Names -> Packs \cup {NoFile}]
    BY <1>4, <2>2 DEF InstallPack, TypeOK
  <2> QED
    BY <1>0, <1>4, <2>3, GoesTypes DEF InstallPack, Ends, Disturb, TypeOK, loader
<1>5. ASSUME NEW n \in Names, UninstallBegin(c, n)
      PROVE  TypeOK'
  <2>1. [name |-> n] \in [name : Names] /\ "unsign" \in Stage
    BY DEF Stage
  <2>2. CASE Goes(c, "unsign", [name |-> n])
    BY <1>5, <2>1, <2>2, GoesTypes DEF UninstallBegin, Starts, TypeOK, files, loader
  <2>3. CASE Ends(c)
    BY <1>0, <1>5, <2>3, GoesTypes DEF UninstallBegin, Starts, Ends, TypeOK, files, loader
  <2> QED
    BY <1>5, <2>2, <2>3 DEF UninstallBegin
<1>6. CASE UninstallSignature(c)
  <2>1. "remove" \in Stage /\ work[c] \in [name : Names]
    BY <1>6 DEF UninstallSignature, Stage, TypeOK
  <2>2. sig' \in [Names -> Signatures \cup {NoFile}]
    BY <1>6, <2>1 DEF UninstallSignature, TypeOK
  <2>3. disturbed' \subseteq Loader
    BY <1>6 DEF UninstallSignature, Disturb, TypeOK
  <2>4. CASE Goes(c, "remove", work[c])
    BY <1>6, <2>1, <2>2, <2>3, <2>4, GoesTypes DEF UninstallSignature, TypeOK, loader
  <2>5. CASE Ends(c)
    BY <1>0, <1>6, <2>2, <2>3, <2>5, GoesTypes DEF UninstallSignature, Ends, TypeOK, loader
  <2> QED
    BY <1>6, <2>4, <2>5 DEF UninstallSignature
<1>7. CASE UninstallPack(c)
  <2>1. json' \in [Names -> Packs \cup {NoFile}]
    BY <1>7 DEF UninstallPack, TypeOK
  <2>2. disturbed' \subseteq Loader /\ cut' \in BOOLEAN
    BY <1>7 DEF UninstallPack, Disturb, TypeOK
  <2> QED
    BY <1>0, <1>7, <2>1, <2>2, GoesTypes DEF UninstallPack, Ends, TypeOK, loader
<1>8. ASSUME NEW publisher \in Publishers, NEW key \in Keys \cup {NoKey},
             TrustBegin(c, publisher, key)
      PROVE  TypeOK'
  <2> DEFINE changed == IF key = NoKey THEN Remove(keyring, publisher)
                        ELSE Add(keyring, publisher, key)
  <2>1. changed # Nothing /\ Goes(c, "trust", [ring |-> changed])
    BY <1>8 DEF TrustBegin
  <2>2. changed \in Keyring
    <3>1. keyring \in Keyring
      BY DEF TypeOK
    <3> QED
      BY <2>1, <3>1, ChangedRing
  <2>3. [ring |-> changed] \in [ring : Keyring] /\ "trust" \in Stage
    BY <2>2 DEF Stage
  <2> HIDE DEF changed
  <2>4. overlapped' \in BOOLEAN
    BY <1>8 DEF TrustBegin, Starts, TypeOK
  <2> QED
    BY <1>8, <2>1, <2>3, <2>4, GoesTypes DEF TrustBegin, TypeOK, files, loader
<1>9. CASE TrustWrite(c)
  <2>1. work[c].ring \in Keyring
    BY <1>9 DEF TrustWrite, TypeOK
  <2>2. everTrusted' \subseteq Publishers \X Keys
    BY <1>9 DEF TrustWrite, TrustedPairs, TypeOK
  <2> QED
    BY <1>0, <1>9, <2>1, <2>2, GoesTypes DEF TrustWrite, Ends, Disturb, TypeOK, files, loader
<1>10. CASE Crash(c)
  <2>1. cut' \in BOOLEAN
    BY <1>10 DEF Crash, TypeOK
  <2> QED
    BY <1>0, <1>10, <2>1, GoesTypes DEF Crash, Ends, TypeOK, files, loader
<1> QED
  BY <1>1, <1>2, <1>3, <1>4, <1>5, <1>6, <1>7, <1>8, <1>9, <1>10 DEF CommandStep

LEMMA TypesLoader ==
  ASSUME TypeOK, NEW l \in Loader, LoaderStep(l)
  PROVE  TypeOK'
<1>1. lpc' \in [Loader -> LoadStage]
  BY DEF TypeOK, LoaderStep, LoadKeyring, ReadDir, ResolveInstalled, LoadEnd, LoadPack,
         VerifyPack, LoaderAt, LoadStage
<1>2. lkeys' \in [Loader -> Keyring]
  BY DEF TypeOK, LoaderStep, LoadKeyring, ReadDir, ResolveInstalled, LoadEnd, LoadPack, VerifyPack
<1>3. todo' \in [Loader -> SUBSET Names]
  BY NameType DEF TypeOK, LoaderStep, LoadKeyring, ReadDir, ResolveInstalled, LoadEnd, LoadPack,
         VerifyPack
<1>4. got' \in [Loader -> SUBSET Packs]
  BY DEF TypeOK, LoaderStep, LoadKeyring, ReadDir, ResolveInstalled, LoadEnd, LoadPack, VerifyPack
<1>5. disturbed' \subseteq Loader
  BY DEF TypeOK, LoaderStep, LoadKeyring, ReadDir, ResolveInstalled, LoadEnd, LoadPack, VerifyPack,
         history
<1>6. UNCHANGED <<json, sig, keyring, pc, work, everTrusted, overlapped, cut>>
  BY DEF LoaderStep, LoadKeyring, ReadDir, ResolveInstalled, LoadEnd, LoadPack, VerifyPack,
         files, command, history
<1> QED
  BY <1>1, <1>2, <1>3, <1>4, <1>5, <1>6 DEF TypeOK

LEMMA TypesUnchanged == ASSUME TypeOK, UNCHANGED vars PROVE TypeOK'
  BY DEF TypeOK, vars, files, command, loader, history

LEMMA InitInv == Init => PackInv
<1> SUFFICES ASSUME Init PROVE PackInv
  OBVIOUS
<1> USE PackAssumption DEF Init
<1>1. TypeOK
  BY DEF TypeOK, Stage, LoadStage, TrustedPairs
<1>2. SignedInv
  BY DEF SignedInv, KeyInv, DirInv, WorkInv, GotInv
<1>3. StageInv
  BY DEF StageInv, Busy
<1>4. PairsIntact
  BY DEF PairsIntact
<1>5. LoadInv
  BY DEF LoadInv
<1> QED
  BY <1>1, <1>2, <1>3, <1>4, <1>5 DEF PackInv

-----------------------------------------------------------------------------
\* Only what was signed is installed and loaded.

\* What was signed once stays so.
LEMMA SignedStays ==
  ASSUME everTrusted \subseteq everTrusted', NEW p, Signed(p)
  PROVE  Signed(p)'
  BY DEF Signed

\* A pack that verifies was signed.
LEMMA VerifiedSigned ==
  ASSUME TypeOK, KeyInv, NEW p \in Packs, NEW s \in Signatures,
         VerifyPublisherSignature(p, s, p.publisher, keyring)
  PROVE  s.of = p /\ Signed(p)
<1>1. s.by = keyring.trusted[p.publisher] /\ s.of = p
  BY DEF VerifyPublisherSignature
<1>2. s.by \in Keys /\ p.publisher \in Publishers
  BY PackAssumption
<1>3. <<p.publisher, s.by>> \in TrustedPairs(keyring)
  BY <1>1, <1>2 DEF TrustedPairs
<1> QED
  BY <1>1, <1>3 DEF Signed, KeyInv

LEMMA EverGrows ==
  ASSUME [Next]_vars PROVE everTrusted \subseteq everTrusted'
<1>1. ASSUME NEW c \in Command, CommandStep(c) PROVE everTrusted \subseteq everTrusted'
  BY <1>1 DEF CommandStep, InstallBegin, InstallCheck, InstallSignature, InstallPack, UninstallBegin,
     UninstallSignature, UninstallPack, TrustBegin, TrustWrite, Crash, history
<1>2. ASSUME NEW l \in Loader, LoaderStep(l) PROVE everTrusted \subseteq everTrusted'
  BY <1>2 DEF LoaderStep, LoadKeyring, ReadDir, ResolveInstalled, LoadEnd, LoadPack, VerifyPack,
     history
<1> QED
  BY <1>1, <1>2, NextCases DEF vars, history

LEMMA SignedCommand ==
  ASSUME TypeOK, SignedInv, NEW c \in Command, CommandStep(c)
  PROVE  SignedInv'
<1>0. everTrusted \subseteq everTrusted'
  BY EverGrows, NextCases
<1>1. KeyInv'
  BY DEF SignedInv, KeyInv, CommandStep, InstallBegin, InstallCheck, InstallSignature, InstallPack,
     UninstallBegin, UninstallSignature, UninstallPack, TrustBegin, TrustWrite, Crash, history
<1>2. GotInv'
  <2>1. UNCHANGED got
    BY DEF CommandStep, InstallBegin, InstallCheck, InstallSignature, InstallPack,
       UninstallBegin, UninstallSignature, UninstallPack, TrustBegin, TrustWrite, Crash, loader
  <2> QED
    BY <1>0, <2>1, SignedStays DEF SignedInv, GotInv
<1>3. DirInv'
  <2>1. ASSUME NEW n \in Names, json'[n] # NoFile, json'[n] # json[n]
        PROVE  Name(json'[n]) = n /\ json'[n].valid /\ Signed(json'[n])
    <3>1. CASE InstallPack(c)
      <4>1. work[c].pack \in Packs /\ Name(work[c].pack) \in Names
        BY <3>1, NameType DEF InstallPack, TypeOK, Installing
      <4>2. n = Name(work[c].pack) /\ json'[n] = work[c].pack
        BY <2>1, <3>1, <4>1 DEF InstallPack, TypeOK
      <4> QED
        BY <3>1, <4>2 DEF InstallPack, SignedInv, WorkInv
    <3>2. CASE UninstallPack(c)
      BY <2>1, <3>2 DEF UninstallPack, TypeOK
    <3> QED
      BY <2>1, <3>1, <3>2 DEF CommandStep, InstallBegin, InstallCheck, InstallSignature,
         UninstallBegin, UninstallSignature, TrustBegin, TrustWrite, Crash, files
  <2> QED
    BY <1>0, <2>1, SignedStays DEF SignedInv, DirInv
<1>4. WorkInv'
  <2>1. ASSUME NEW d \in Command, d # c PROVE pc'[d] = pc[d] /\ work'[d] = work[d]
    BY <2>1 DEF TypeOK, CommandStep, InstallBegin, InstallCheck, InstallSignature, InstallPack,
       UninstallBegin, UninstallSignature, UninstallPack, TrustBegin, TrustWrite, Crash, Goes, Ends
  <2>2. ASSUME pc'[c] \in {"check", "sign", "write"}
        PROVE  /\ work'[c].signature.of = work'[c].pack
               /\ work'[c].pack.valid
               /\ Signed(work'[c].pack)
    <3>1. ASSUME NEW p \in Packs, NEW s \in Signatures, InstallBegin(c, p, s)
          PROVE  /\ work'[c].signature.of = work'[c].pack
                 /\ work'[c].pack.valid
                 /\ Signed(work'[c].pack)
      <4>1. work'[c] = [pack |-> p, signature |-> s]
        BY <3>1 DEF InstallBegin, Goes, TypeOK
      <4>2. p.valid /\ s.of = p /\ Signed(p)
        BY <3>1, VerifiedSigned DEF InstallBegin, SignedInv
      <4> QED
        BY <4>1, <4>2
    <3>2. CASE InstallCheck(c)
      BY <2>2, <3>2 DEF InstallCheck, Goes, Ends, TypeOK, SignedInv, WorkInv
    <3>3. CASE InstallSignature(c)
      BY <2>2, <3>3 DEF InstallSignature, Goes, Ends, TypeOK, SignedInv, WorkInv
    <3> QED
      BY <2>2, <3>1, <3>2, <3>3 DEF CommandStep, InstallPack, UninstallBegin, UninstallSignature,
         UninstallPack, TrustBegin, TrustWrite, Crash, Goes, Ends, TypeOK
  <2> QED
    BY <1>0, <2>1, <2>2, SignedStays DEF SignedInv, WorkInv
<1> QED
  BY <1>1, <1>2, <1>3, <1>4 DEF SignedInv

LEMMA SignedLoader ==
  ASSUME TypeOK, SignedInv, NEW l \in Loader, LoaderStep(l)
  PROVE  SignedInv'
<1>1. UNCHANGED <<json, sig, keyring, pc, work, everTrusted>>
  BY DEF LoaderStep, LoadKeyring, ReadDir, ResolveInstalled, LoadEnd, LoadPack, VerifyPack,
         files, command, history
<1>2. KeyInv' /\ DirInv' /\ WorkInv'
  BY <1>1 DEF SignedInv, KeyInv, DirInv, WorkInv, Signed
<1>3. GotInv'
  <2>1. CASE \E n \in Names : LoadPack(l, n)
    <3>1. PICK n \in Names : LoadPack(l, n)
      BY <2>1
    <3>2. ASSUME NEW k \in Loader, NEW p \in got'[k] PROVE Signed(p)
      <4>1. p \in got[k] \/ (p = json[n] /\ json[n] # NoFile)
        BY <3>1 DEF LoadPack, TypeOK
      <4> QED
        BY <4>1 DEF SignedInv, GotInv, DirInv
    <3>3. \A p : Signed(p)' <=> Signed(p)
      BY <1>1 DEF Signed
    <3> QED
      BY <3>2, <3>3 DEF GotInv
  <2>2. CASE LoadKeyring(l)
    BY <1>1, <2>2 DEF LoadKeyring, SignedInv, GotInv, Signed, TypeOK
  <2> QED
    BY <1>1, <2>1, <2>2 DEF LoaderStep, ReadDir, ResolveInstalled, LoadEnd, VerifyPack,
       SignedInv, GotInv, Signed
<1> QED
  BY <1>2, <1>3 DEF SignedInv

-----------------------------------------------------------------------------
\* Commands that do not overlap.

\* The others are where they were; unless it has overlapped, they are idle.
LEMMA OthersIdle ==
  ASSUME TypeOK, StageInv, NEW c \in Command, CommandStep(c), ~overlapped'
  PROVE  /\ ~overlapped
         /\ \A d \in Command \ {c} : pc[d] = "idle" /\ pc'[d] = "idle"
<1>1. ASSUME NEW d \in Command, d # c PROVE pc'[d] = pc[d]
  BY <1>1 DEF TypeOK, CommandStep, InstallBegin, InstallCheck, InstallSignature, InstallPack,
     UninstallBegin, UninstallSignature, UninstallPack, TrustBegin, TrustWrite, Crash, Goes, Ends
<1>2. ~overlapped
  BY DEF TypeOK, CommandStep, InstallBegin, InstallCheck, InstallSignature, InstallPack,
     UninstallBegin, UninstallSignature, UninstallPack, TrustBegin, TrustWrite, Crash, Starts, history
<1>3. Busy(c) \/ \A d \in Command \ {c} : ~Busy(d)
  BY <1>2 DEF CommandStep, InstallBegin, InstallCheck, InstallSignature, InstallPack,
     UninstallBegin, UninstallSignature, UninstallPack, TrustBegin, TrustWrite, Crash, Starts, Busy
<1> QED
  BY <1>1, <1>2, <1>3 DEF StageInv, Busy

LEMMA StageCommand ==
  ASSUME TypeOK, SignedInv, StageInv, NEW c \in Command, CommandStep(c)
  PROVE  StageInv'
<1> SUFFICES ASSUME ~overlapped'
    PROVE  /\ \A d, e \in Command : Busy(d)' /\ Busy(e)' => d = e
           /\ \A d \in Command :
                /\ pc'[d] \in {"sign", "write"} => json'[Name(work'[d].pack)] = NoFile
                /\ pc'[d] = "write" => sig'[Name(work'[d].pack)] = work'[d].signature
  BY DEF StageInv
<1>1. ~overlapped /\ \A d \in Command \ {c} : pc'[d] = "idle"
  BY OthersIdle
<1>2. \A d, e \in Command : Busy(d)' /\ Busy(e)' => d = e
  BY <1>1 DEF Busy
<1>3. ASSUME pc'[c] \in {"sign", "write"}
      PROVE  /\ json'[Name(work'[c].pack)] = NoFile
             /\ pc'[c] = "write" => sig'[Name(work'[c].pack)] = work'[c].signature
  <2>1. CASE InstallCheck(c)
    BY <1>3, <2>1 DEF InstallCheck, Goes, Ends, TypeOK, files
  <2>2. CASE InstallSignature(c)
    <3>1. work[c].pack \in Packs /\ Name(work[c].pack) \in Names
      BY <2>2, NameType DEF InstallSignature, TypeOK, Installing
    <3> QED
      BY <1>1, <1>3, <2>2, <3>1 DEF InstallSignature, Goes, Ends, TypeOK, StageInv
  <2> QED
    BY <1>3, <2>1, <2>2 DEF CommandStep, InstallBegin, InstallPack, UninstallBegin, UninstallSignature,
       UninstallPack, TrustBegin, TrustWrite, Crash, Goes, Ends, TypeOK
<1> QED
  BY <1>1, <1>2, <1>3

LEMMA StageLoader ==
  ASSUME StageInv, PairsIntact, NEW l \in Loader, LoaderStep(l)
  PROVE  StageInv' /\ PairsIntact'
<1>1. UNCHANGED <<json, sig, keyring, pc, work, overlapped, cut>>
  BY DEF LoaderStep, LoadKeyring, ReadDir, ResolveInstalled, LoadEnd, LoadPack, VerifyPack,
         files, command, history
<1> QED
  BY <1>1 DEF StageInv, PairsIntact, Busy, BeingRemoved

LEMMA PairsCommand ==
  ASSUME TypeOK, SignedInv, StageInv, PairsIntact, NEW c \in Command, CommandStep(c)
  PROVE  PairsIntact'
<1> SUFFICES ASSUME ~overlapped', ~cut', NEW n \in Names, json'[n] # NoFile, ~BeingRemoved(n)'
             PROVE  sig'[n] # NoFile /\ sig'[n].of = json'[n]
  BY DEF PairsIntact
<1>1. ~overlapped /\ \A d \in Command \ {c} : pc[d] = "idle" /\ pc'[d] = "idle"
  BY OthersIdle
<1>2. ~cut
  BY DEF CommandStep, InstallBegin, InstallCheck, InstallSignature, InstallPack, UninstallBegin,
     UninstallSignature, UninstallPack, TrustBegin, TrustWrite, Crash, history, TypeOK
<1>3. json[n] # NoFile /\ pc[c] # "remove" => sig[n] # NoFile /\ sig[n].of = json[n]
  BY <1>1, <1>2 DEF PairsIntact, BeingRemoved
<1>4. CASE InstallSignature(c)
  <2>1. json[Name(work[c].pack)] = NoFile /\ json' = json
    BY <1>1, <1>4 DEF InstallSignature, StageInv
  <2> QED
    BY <1>3, <1>4, <2>1 DEF InstallSignature, TypeOK
<1>5. CASE InstallPack(c)
  <2>1. work[c].pack \in Packs /\ work[c].signature \in Signatures /\ Name(work[c].pack) \in Names
    BY <1>5, NameType DEF InstallPack, TypeOK, Installing
  <2>2. /\ json[Name(work[c].pack)] = NoFile
        /\ sig[Name(work[c].pack)] = work[c].signature
        /\ work[c].signature.of = work[c].pack
    BY <1>1, <1>5 DEF InstallPack, StageInv, SignedInv, WorkInv
  <2>3. work[c].signature # NoFile
    BY <2>1, PackAssumption
  <2>4. n # Name(work[c].pack) => json'[n] = json[n] /\ sig'[n] = sig[n]
    BY <1>5, <2>1 DEF InstallPack, TypeOK
  <2>5. n = Name(work[c].pack) => json'[n] = work[c].pack /\ sig'[n] = sig[n]
    BY <1>5, <2>1, <2>2 DEF InstallPack, TypeOK
  <2> QED
    BY <1>3, <1>5, <2>2, <2>3, <2>4, <2>5 DEF InstallPack
<1>6. CASE UninstallSignature(c)
  <2>1. work[c].name \in Names /\ json' = json /\ pc[c] = "unsign"
    BY <1>6 DEF UninstallSignature, TypeOK
  <2>2. sig' = sig \/ (sig' = [sig EXCEPT ![work[c].name] = NoFile] /\ n # work[c].name)
    BY <1>6, <2>1 DEF UninstallSignature, Goes, BeingRemoved, TypeOK
  <2> QED
    BY <1>3, <2>1, <2>2 DEF TypeOK
<1>7. CASE UninstallPack(c)
  <2>1. work[c].name \in Names /\ pc[c] = "remove" /\ sig' = sig
        /\ json' = [json EXCEPT ![work[c].name] = NoFile]
    BY <1>7 DEF UninstallPack, TypeOK
  <2>2. n # work[c].name /\ json'[n] = json[n]
    BY <2>1 DEF TypeOK
  <2>3. ~BeingRemoved(n)
    BY <1>1, <2>2 DEF BeingRemoved
  <2> QED
    BY <1>1, <1>2, <2>1, <2>2, <2>3 DEF PairsIntact
<1>8. CASE json' = json /\ sig' = sig /\ pc[c] # "remove"
  BY <1>3, <1>8
<1> QED
  BY <1>4, <1>5, <1>6, <1>7, <1>8 DEF CommandStep, InstallBegin, InstallCheck, UninstallBegin, TrustBegin,
     TrustWrite, Crash, Starts, Busy, files, TypeOK

-----------------------------------------------------------------------------
\* Loading.

\* A command either changes a file, or leaves what loaders have seen as it is;
\* and it does not end between the two removals of an uninstall unnoticed.
LEMMA CommandBesideLoad ==
  ASSUME TypeOK, NEW c \in Command, CommandStep(c)
  PROVE  \/ disturbed' = Loader
         \/ /\ UNCHANGED <<json, sig, keyring, loader, disturbed>>
            /\ overlapped => overlapped'
            /\ cut => cut'
            /\ \A n \in Names : BeingRemoved(n) => BeingRemoved(n)' \/ cut'
<1>1. disturbed' = Loader \/ UNCHANGED <<json, sig, keyring, loader, disturbed>>
  BY DEF CommandStep, InstallBegin, InstallCheck, InstallSignature, InstallPack, UninstallBegin,
     UninstallSignature, UninstallPack, TrustBegin, TrustWrite, Crash, Disturb, files, loader, history
<1>2. (overlapped => overlapped') /\ (cut => cut')
  BY DEF CommandStep, InstallBegin, InstallCheck, InstallSignature, InstallPack, UninstallBegin,
     UninstallSignature, UninstallPack, TrustBegin, TrustWrite, Crash, Starts, history, TypeOK
<1>3. ASSUME disturbed' # Loader, NEW n \in Names, NEW d \in Command, pc[d] = "remove", ~cut'
      PROVE  pc'[d] = "remove" /\ work'[d] = work[d]
  <2>1. ASSUME d # c PROVE pc'[d] = pc[d] /\ work'[d] = work[d]
    BY <2>1 DEF TypeOK, CommandStep, InstallBegin, InstallCheck, InstallSignature, InstallPack,
       UninstallBegin, UninstallSignature, UninstallPack, TrustBegin, TrustWrite, Crash, Goes, Ends
  <2>2. d # c
    BY <1>3 DEF CommandStep, InstallBegin, InstallCheck, InstallSignature, InstallPack,
       UninstallBegin, UninstallSignature, UninstallPack, TrustBegin, TrustWrite, Crash, Starts, Busy,
       Disturb
  <2> QED
    BY <1>3, <2>1, <2>2
<1> QED
  BY <1>1, <1>2, <1>3 DEF BeingRemoved

LEMMA LoadCommand ==
  ASSUME TypeOK, LoadInv, NEW c \in Command, CommandStep(c)
  PROVE  LoadInv'
<1>1. CASE disturbed' = Loader
  BY <1>1 DEF LoadInv
<1>2. CASE /\ UNCHANGED <<json, sig, keyring, loader, disturbed>>
           /\ overlapped => overlapped'
           /\ cut => cut'
           /\ \A n \in Names : BeingRemoved(n) => BeingRemoved(n)' \/ cut'
  <2>1. Present' = Present /\ Installed' = Installed /\ (MayFail' <=> MayFail)
    BY <1>2 DEF Present, Installed, MayFail
  <2> QED
    BY <1>2, <2>1 DEF LoadInv, loader
<1> QED
  BY <1>1, <1>2, CommandBesideLoad

\* The installed packs are those that are present, each under its name.
LEMMA InstalledNames ==
  ASSUME TypeOK, DirInv
  PROVE  /\ Installed = {json[n] : n \in Present}
         /\ \A p \in Installed : p \in Packs /\ Name(p) \in Present /\ json[Name(p)] = p
  BY DEF TypeOK, DirInv, Installed, Present

\* A signature that does not verify explains the failure, if it covers the pack.
LEMMA UnverifiedExplained ==
  ASSUME TypeOK, DirInv, NEW p \in Installed, sig[Name(p)] # NoFile, sig[Name(p)].of = p,
         ~VerifyPublisherSignature(p, sig[Name(p)], p.publisher, keyring)
  PROVE  MayFail
<1>1. p \in Packs /\ p.publisher \in Publishers /\ Name(p) \in Names
  BY InstalledNames, PackAssumption DEF Present
<1>2. sig[Name(p)] \in Signatures
  BY <1>1 DEF TypeOK
<1>3. sig[Name(p)] = [of |-> p, by |-> sig[Name(p)].by] /\ sig[Name(p)].by \in Keys
  BY <1>2, PackAssumption
<1> QED
  BY <1>1, <1>3, PackAssumption DEF VerifyPublisherSignature, MayFail

LEMMA LoadLoader ==
  ASSUME TypeOK, SignedInv, PairsIntact, LoadInv, NEW l \in Loader, LoaderStep(l)
  PROVE  LoadInv'
<1>1. UNCHANGED <<json, sig, keyring, pc, work, overlapped, cut>>
  BY DEF LoaderStep, LoadKeyring, ReadDir, ResolveInstalled, LoadEnd, LoadPack, VerifyPack,
         files, command, history
<1>2. /\ Present' = Present /\ Installed' = Installed /\ (MayFail' <=> MayFail)
      /\ \A n \in Names : BeingRemoved(n)' <=> BeingRemoved(n)
  BY <1>1 DEF Present, Installed, MayFail, BeingRemoved
<1>3. ASSUME NEW k \in Loader, k # l
      PROVE  /\ lpc'[k] = lpc[k] /\ lkeys'[k] = lkeys[k] /\ todo'[k] = todo[k] /\ got'[k] = got[k]
             /\ k \in disturbed' <=> k \in disturbed
  BY <1>3 DEF TypeOK, LoaderStep, LoadKeyring, ReadDir, ResolveInstalled, LoadEnd, LoadPack, VerifyPack,
     LoaderAt, history
<1> DEFINE Ok(n) == VerifyPublisherSignature(json[n], sig[n], json[n].publisher, keyring)
<1> HIDE DEF Ok
<1>4. ASSUME l \notin disturbed'
      PROVE  /\ lpc'[l] # "idle" => lkeys'[l] = keyring
             /\ lpc'[l] = "list" => got'[l] = {}
             /\ lpc'[l] = "read" =>
                  todo'[l] \subseteq Present /\ got'[l] = {json[n] : n \in Present \ todo'[l]}
             /\ lpc'[l] \in {"verify", "done"} => got'[l] = Installed
             /\ lpc'[l] = "verify" => \A n \in Present \ todo'[l] : Ok(n)
             /\ lpc'[l] = "done" => (\A n \in Present : Ok(n)) /\ Resolve(Bundled \cup Installed)
             /\ lpc'[l] = "failed" /\ ~overlapped /\ ~cut =>
                  MayFail \/ \E n \in Names : BeingRemoved(n)
  <2>0. Installed = {json[n] : n \in Present}
        /\ \A p \in Installed : p \in Packs /\ Name(p) \in Present /\ json[Name(p)] = p
    BY InstalledNames DEF SignedInv
  <2>1. CASE LoadKeyring(l)
    BY <2>1 DEF LoadKeyring, LoaderAt, TypeOK
  <2>2. CASE ~LoadKeyring(l)
    <3>1. /\ lpc[l] # "idle" => lkeys[l] = keyring
          /\ lpc[l] = "list" => got[l] = {}
          /\ lpc[l] = "read" =>
               todo[l] \subseteq Present /\ got[l] = {json[n] : n \in Present \ todo[l]}
          /\ lpc[l] \in {"verify", "done"} => got[l] = Installed
          /\ lpc[l] = "verify" => \A n \in Present \ todo[l] : Ok(n)
      BY <1>4, <2>2 DEF LoadInv, Ok, LoaderStep, ReadDir, ResolveInstalled, LoadEnd, LoadPack,
         VerifyPack, history
    <3>2. CASE ReadDir(l)
      <4>1. lpc'[l] = "read" /\ todo'[l] = Present /\ got'[l] = {} /\ lkeys'[l] = keyring
        BY <3>1, <3>2 DEF ReadDir, LoaderAt, TypeOK, Present
      <4> QED
        BY <4>1
    <3>3. CASE \E n \in Names : LoadPack(l, n)
      <4>1. PICK n \in Names : LoadPack(l, n)
        BY <3>3
      <4>2. n \in Present /\ Name(json[n]) = n /\ json[n].valid
        BY <3>1, <4>1 DEF LoadPack, Present, SignedInv, DirInv
      <4>3. /\ lpc' = lpc /\ lpc[l] = "read" /\ lkeys' = lkeys
            /\ todo'[l] = todo[l] \ {n} /\ got'[l] = got[l] \cup {json[n]}
        BY <4>1, <4>2 DEF LoadPack, Present, TypeOK
      <4>4. got'[l] = {json[m] : m \in Present \ todo'[l]}
        BY <3>1, <4>2, <4>3
      <4> QED
        BY <3>1, <4>3, <4>4
    <3>4. CASE ResolveInstalled(l)
      <4>1. got[l] = Installed /\ got' = got /\ lkeys' = lkeys
        BY <2>0, <3>1, <3>4 DEF ResolveInstalled
      <4>2. todo'[l] = {Name(p) : p \in Installed}
        BY <3>4, <4>1 DEF ResolveInstalled, TypeOK
      <4>3. Present \subseteq todo'[l]
        BY <4>2, <2>0 DEF SignedInv, DirInv, Present
      <4>4. lpc'[l] = "verify" \/ (lpc'[l] = "failed" /\ ~Resolve(Installed))
        BY <3>4, <4>1 DEF ResolveInstalled, LoaderAt, TypeOK
      <4>5. ~Resolve(Installed) => MayFail
        BY DEF MayFail, Resolve
      <4>6. lkeys[l] = keyring
        BY <3>1, <3>4 DEF ResolveInstalled
      <4> QED
        BY <4>1, <4>3, <4>4, <4>5, <4>6
    <3>5. CASE \E p \in Packs : VerifyPack(l, p)
      <4>1. PICK p \in Packs : VerifyPack(l, p)
        BY <3>5
      <4>2. /\ lpc[l] = "verify" /\ got[l] = Installed /\ p \in Installed /\ got' = got
            /\ lkeys[l] = keyring /\ lkeys' = lkeys /\ todo'[l] = todo[l] \ {Name(p)}
        BY <3>1, <4>1 DEF VerifyPack, TypeOK
      <4>3. json[Name(p)] = p /\ p # NoFile /\ Name(p) \in Names
        BY <2>0, <4>2 DEF Present
      <4>4. Verified(l, p) <=> Ok(Name(p))
        BY <4>2, <4>3 DEF Verified, Ok
      <4>5. CASE Verified(l, p)
        BY <3>1, <4>1, <4>2, <4>4, <4>5 DEF VerifyPack
      <4>6. CASE ~Verified(l, p)
        <5>1. lpc'[l] = "failed"
          BY <4>1, <4>6 DEF VerifyPack, LoaderAt, TypeOK
        <5>2. ASSUME ~overlapped, ~cut, ~BeingRemoved(Name(p)) PROVE MayFail
          <6>1. sig[Name(p)] # NoFile /\ sig[Name(p)].of = p
            BY <4>3, <5>2 DEF PairsIntact
          <6> QED
            BY <4>2, <4>3, <4>4, <4>6, <6>1, UnverifiedExplained DEF SignedInv, Ok
        <5> QED
          BY <4>2, <4>3, <5>1, <5>2
      <4> QED
        BY <4>5, <4>6
    <3>6. CASE LoadEnd(l)
      <4>1. /\ lpc[l] = "verify" /\ todo[l] = {} /\ got[l] = Installed /\ got' = got
            /\ lkeys[l] = keyring /\ lkeys' = lkeys
        BY <3>1, <3>6 DEF LoadEnd
      <4>2. \A n \in Present : Ok(n)
        BY <3>1, <4>1
      <4>3. \/ lpc'[l] = "done" /\ Resolve(Bundled \cup Installed)
            \/ lpc'[l] = "failed" /\ ~Resolve(Bundled \cup Installed)
        BY <3>6, <4>1 DEF LoadEnd, LoaderAt, TypeOK
      <4> QED
        BY <4>1, <4>2, <4>3 DEF MayFail
    <3> QED
      BY <2>2, <3>2, <3>3, <3>4, <3>5, <3>6 DEF LoaderStep
  <2> QED
    BY <2>1, <2>2
<1>5. ASSUME NEW k \in Loader \ disturbed'
      PROVE  /\ lpc'[k] # "idle" => lkeys'[k] = keyring
             /\ lpc'[k] = "list" => got'[k] = {}
             /\ lpc'[k] = "read" =>
                  todo'[k] \subseteq Present /\ got'[k] = {json[n] : n \in Present \ todo'[k]}
             /\ lpc'[k] \in {"verify", "done"} => got'[k] = Installed
             /\ lpc'[k] = "verify" => \A n \in Present \ todo'[k] : Ok(n)
             /\ lpc'[k] = "done" => (\A n \in Present : Ok(n)) /\ Resolve(Bundled \cup Installed)
             /\ lpc'[k] = "failed" /\ ~overlapped /\ ~cut =>
                  MayFail \/ \E n \in Names : BeingRemoved(n)
  <2>1. CASE k = l
    BY <1>4, <2>1
  <2>2. CASE k # l
    <3>1. k \in Loader \ disturbed
      BY <1>3, <2>2
    <3> QED
      BY <1>3, <2>2, <3>1 DEF LoadInv, Ok
  <2> QED
    BY <2>1, <2>2
<1> QED
  BY <1>1, <1>2, <1>5 DEF LoadInv, Ok

-----------------------------------------------------------------------------
\* The invariant, and the properties that follow from it.

\* Every reachable state of the pack directory, its commands and its loaders
\* satisfies the inductive invariant PackInv.
THEOREM PackInvariant == Spec => []PackInv
<1>1. PackInv /\ [Next]_vars => PackInv'
  <2> SUFFICES ASSUME PackInv, [Next]_vars PROVE PackInv'
    OBVIOUS
  <2> USE DEF PackInv
  <2>1. ASSUME NEW c \in Command, CommandStep(c) PROVE PackInv'
    BY <2>1, TypesCommand, SignedCommand, StageCommand, PairsCommand, LoadCommand
  <2>2. ASSUME NEW l \in Loader, LoaderStep(l) PROVE PackInv'
    BY <2>2, TypesLoader, SignedLoader, StageLoader, LoadLoader
  <2>3. CASE UNCHANGED vars
    <3>1. UNCHANGED <<json, sig, keyring, pc, work, lpc, lkeys, todo, got, everTrusted, overlapped,
                      cut, disturbed>>
      BY <2>3 DEF vars, files, command, loader, history
    <3>2. TypeOK' /\ SignedInv' /\ StageInv' /\ PairsIntact'
      BY <2>3, <3>1, TypesUnchanged DEF SignedInv, KeyInv, DirInv, WorkInv, GotInv, Signed, StageInv,
         Busy, PairsIntact, BeingRemoved
    <3>3. LoadInv'
      BY <3>1 DEF LoadInv, Present, Installed, MayFail, BeingRemoved
    <3> QED
      BY <3>2, <3>3
  <2> QED
    BY <2>1, <2>2, <2>3, NextCases
<1> QED
  BY <1>1, InitInv, PTL DEF Spec

\* Whatever overlaps, fails or crashes, only packs that were signed by a
\* trusted key are loaded.
THEOREM LoadedSigned == Spec => []LoadedWereSigned
<1>1. PackInv => LoadedWereSigned
  BY DEF PackInv, SignedInv, GotInv, LoadedWereSigned
<1> QED
  BY <1>1, PackInvariant, PTL

\* A load beside which nothing changes has read all that is installed, and
\* verified it with the keys in force.
THEOREM QuietLoads == Spec => []QuietLoadsAreVerified
<1>1. PackInv => QuietLoadsAreVerified
  <2> SUFFICES ASSUME PackInv, NEW l \in Loader \ disturbed, lpc[l] = "done"
               PROVE  /\ got[l] = Installed
                      /\ \A p \in Installed : VerifyPublisherSignature(p, sig[Name(p)], p.publisher, keyring)
                      /\ Resolve(Bundled \cup Installed)
    BY DEF QuietLoadsAreVerified
  <2>1. \A p \in Installed : Name(p) \in Present /\ json[Name(p)] = p
    BY InstalledNames DEF PackInv, SignedInv
  <2> QED
    BY <2>1 DEF PackInv, LoadInv
<1> QED
  BY <1>1, PackInvariant, PTL

\* Installed packs keep their signatures, wherever an install is cut short.
THEOREM PairsKept == Spec => []PairsIntact
  BY PackInvariant, PTL DEF PackInv

\* And loading fails only for trust that was withdrawn or packs that contend.
THEOREM FailuresExplained == Spec => []LoadFailuresExplained
<1>1. PackInv => LoadFailuresExplained
  BY DEF PackInv, LoadInv, LoadFailuresExplained
<1> QED
  BY <1>1, PackInvariant, PTL

=============================================================================
