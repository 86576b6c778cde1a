---------------------------- MODULE SettingsProofs ----------------------------
(***************************************************************************)
(* What is read here, and written back there much later: the secret that    *)
(* opens an account's mailbox (Credentials), and the embedder's settings    *)
(* row (EmbedderSettings).  For any number of pages, workers and handlers.  *)
(*                                                                         *)
(* A secret belongs to the deposit it goes back to, and a run hands back    *)
(* only its own.  A whole reading of the settings stays true of the row     *)
(* until the row's timestamp moves, wherever it lies by then: on the form,  *)
(* in a reading not yet applied, or in a save not yet written.              *)
(***************************************************************************)
EXTENDS Credentials, EmbedderSettings, TLAPS

-----------------------------------------------------------------------------
(* The secrets.  A deposit has one number and opens one mailbox; a rotation *)
(* changes neither, so two secrets that go back to one deposit agree.       *)
SecretRec == [n : Nat, turn : Nat, box : Mailbox]
CredRow   == [secret : SecretRec, row : Nat]
PageAt    == {"idle", "grant", "verify", "require", "connected", "failed"}
WorkAt    == {"idle", "work", "look", "write", "mark"}

CredTypeOK ==
    /\ provider \in Provider
    /\ address \in Mailbox /\ named \in Mailbox \cup {Nothing}
    /\ account \in {"none", "idle", "auth_error"}
    /\ cred \in [Kind -> CredRow \cup {Nothing}]
    /\ page \in [Page -> [pc : PageAt, secret : SecretRec \cup {Nothing}]]
    /\ run \in [Worker -> [pc : WorkAt, opened : SecretRec \cup {Nothing},
                           kind : Kind \cup {Nothing},
                           current : SecretRec \cup {Nothing},
                           row : Nat \cup {Nothing}, denied : BOOLEAN]]
    /\ deposits \in Nat /\ runs \in Nat
    /\ latest \in [kind : Kind, n : Nat] \cup {Nothing}
    /\ window \in BOOLEAN /\ torn \in BOOLEAN

SameDeposit(s, t) == s.n = t.n /\ s.box = t.box

(* What a run hands back goes back to the deposit it was opened with.       *)
RunsKeepTheirs ==
    \A w \in Worker : run[w].pc \in {"work", "look", "write"} =>
        /\ run[w].kind \in Kind
        /\ run[w].opened \in SecretRec /\ run[w].current \in SecretRec
        /\ SameDeposit(run[w].current, run[w].opened)

(* Between its look and its write, the row is still of that deposit.        *)
WritesBackTheSame ==
    ~window => \A w \in Worker :
        run[w].pc = "write" /\ cred[run[w].kind] # Nothing =>
            SameDeposit(run[w].current, cred[run[w].kind].secret)

(* The granted secret opens another mailbox than the one compared last.     *)
Another == cred["oauth"] # Nothing /\ cred["oauth"].secret.box # named

(* One consent at a time, and what it knows of the secret it granted: one   *)
(* that opens somebody else's mailbox never gets to "connected", and while  *)
(* it is there an idle account has its consent still going on.              *)
OneConsent ==
    ~torn => \A p, q \in Page : Consenting(p) /\ Consenting(q) => p = q

RequiresWhatIsThere ==
    ~torn /\ ~window => \A p \in Page :
        page[p].pc = "require" =>
            /\ page[p].secret \in SecretRec
            /\ cred["oauth"] # Nothing => cred["oauth"].secret.box = page[p].secret.box

ConnectedIsOwn ==
    ~torn /\ ~window => \A p \in Page : page[p].pc = "connected" => ~Another

AnotherIsInQuestion ==
    ~torn /\ ~window /\ account = "idle" /\ Another =>
        \E p \in Page : page[p].pc \in {"verify", "require", "failed"}

CInv ==
    /\ CredTypeOK /\ RunsKeepTheirs /\ WritesBackTheSame /\ LatestDepositStays
    /\ OneConsent /\ RequiresWhatIsThere /\ ConnectedIsOwn /\ AnotherIsInQuestion

USE CredentialAssumption

(* Only what the invariant says of the secrets, of the consents, and of the *)
(* runs is ever disturbed by a step; each of these is unfolded where it is. *)
LEMMA CredInit == CredentialInit => CInv
<1>. SUFFICES ASSUME CredentialInit  PROVE CInv
  OBVIOUS
<1>1. PICK box \in Mailbox :
        cred = [k \in Kind |->
                  IF k = "password" /\ provider.fields
                  THEN [secret |-> [n |-> 1, turn |-> 0, box |-> box], row |-> 1]
                  ELSE Nothing]
  BY DEF CredentialInit
<1>2. cred \in [Kind -> CredRow \cup {Nothing}]
  BY <1>1 DEF CredRow, SecretRec, Kind
<1>3. latest \in [kind : Kind, n : Nat] \cup {Nothing}
  BY DEF CredentialInit, Kind
<1>4. CredTypeOK
  BY <1>2, <1>3 DEF CredentialInit, CredTypeOK, Provider, NoConsent, NoRun, PageAt, WorkAt
<1>5. RunsKeepTheirs /\ WritesBackTheSame
  BY DEF CredentialInit, RunsKeepTheirs, WritesBackTheSame, NoRun
<1>6. LatestDepositStays
  BY <1>1 DEF CredentialInit, LatestDepositStays, Kind
<1>7. OneConsent /\ RequiresWhatIsThere /\ ConnectedIsOwn
  BY DEF CredentialInit, OneConsent, RequiresWhatIsThere, ConnectedIsOwn, NoConsent, Consenting
<1>8. AnotherIsInQuestion
  BY <1>1 DEF CredentialInit, AnotherIsInQuestion, Another, Kind
<1>. QED  BY <1>4, <1>5, <1>6, <1>7, <1>8 DEF CInv

(* A secret is stored under its kind, and nothing else changes.             *)
LEMMA StoredFacts ==
    ASSUME NEW c \in [Kind -> CredRow \cup {Nothing}], NEW k \in Kind, NEW s \in SecretRec
    PROVE  LET d == Stored(c, k, s)
           IN  /\ d[k].secret = s
               /\ \A j \in Kind : j # k => d[j] = c[j]
               /\ (\A j \in Kind : c[j] # Nothing => c[j] \in CredRow)
                     => d \in [Kind -> CredRow \cup {Nothing}]
<1>. DEFINE under == IF c[k] = Nothing THEN s.n ELSE c[k].row
            x     == [secret |-> s, row |-> under]
<1>1. Stored(c, k, s) = [c EXCEPT ![k] = x]
  BY DEF Stored
<1>2. ASSUME c[k] # Nothing => c[k] \in CredRow  PROVE x \in CredRow
  BY <1>2 DEF CredRow, SecretRec
<1>3. x.secret = s
  OBVIOUS
<1>. HIDE DEF x
<1>. QED  BY <1>1, <1>2, <1>3

(* A deposit: a worker that is between its look and its write makes it one  *)
(* of the excused.                                                         *)
LEMMA DepositHolds ==
    ASSUME CInv, NEW k \in Kind, NEW box \in Mailbox,
           NEW c \in [Kind -> CredRow \cup {Nothing}],
           cred' = Stored(c, k, Secret(box)), Deposited(k),
           UNCHANGED <<provider, account, run, runs, torn>>
    PROVE  /\ cred' \in [Kind -> CredRow \cup {Nothing}]
           /\ deposits' \in Nat /\ window' \in BOOLEAN
           /\ latest' \in [kind : Kind, n : Nat] \cup {Nothing}
           /\ cred'[k].secret.box = box /\ \A j \in Kind : j # k => cred'[j] = c[j]
           /\ RunsKeepTheirs' /\ WritesBackTheSame' /\ LatestDepositStays'
<1>1. deposits \in Nat /\ window \in BOOLEAN
  BY DEF CInv, CredTypeOK
<1>2. Secret(box) \in SecretRec /\ Secret(box).box = box /\ Secret(box).n = deposits + 1
  BY <1>1 DEF Secret, SecretRec
<1>3. \A j \in Kind : c[j] # Nothing => c[j] \in CredRow
  OBVIOUS
<1>4. /\ cred'[k].secret = Secret(box) /\ cred' \in [Kind -> CredRow \cup {Nothing}]
      /\ \A j \in Kind : j # k => cred'[j] = c[j]
  BY <1>2, <1>3, StoredFacts
<1>5. latest' = [kind |-> k, n |-> deposits + 1] /\ deposits' = deposits + 1
      /\ window' = (window \/ Looking)
  BY DEF Deposited
<1>6. latest' \in [kind : Kind, n : Nat] /\ latest'.kind = k /\ latest'.n = deposits + 1
  BY <1>1, <1>5
<1>7. window' \in BOOLEAN
  BY <1>5 DEF Looking
<1>8. RunsKeepTheirs'
  BY DEF CInv, RunsKeepTheirs
<1>9. WritesBackTheSame'
  BY <1>5 DEF WritesBackTheSame, Looking
<1>10. LatestDepositStays'
  BY <1>2, <1>4, <1>6 DEF LatestDepositStays
<1>. QED  BY <1>1, <1>2, <1>4, <1>5, <1>6, <1>7, <1>8, <1>9, <1>10

LEMMA SecretsKept ==
    ASSUME CInv, UNCHANGED <<cred, run, latest, window>>
    PROVE  RunsKeepTheirs' /\ WritesBackTheSame' /\ LatestDepositStays'
           /\ (named' = named => Another' = Another)
BY DEF CInv, RunsKeepTheirs, WritesBackTheSame, LatestDepositStays, Another

(* The row's address is nobody's business but a comparison's, and a typed   *)
(* secret is none of the granted ones.                                     *)
LEMMA SaveAccountHolds ==
    ASSUME CInv, NEW p \in Page, SaveAccount(p)
    PROVE  CInv'
<1>1. /\ UNCHANGED <<provider, account, page, run, runs, named, torn>>
      /\ cred \in [Kind -> CredRow \cup {Nothing}] /\ address' \in Mailbox
  BY DEF SaveAccount, CInv, CredTypeOK
<1>2. "password" \in Kind /\ "oauth" \in Kind
  BY DEF Kind
<1>3. /\ cred' \in [Kind -> CredRow \cup {Nothing}] /\ cred'["oauth"] = cred["oauth"]
      /\ deposits' \in Nat /\ window' \in BOOLEAN /\ (~window' => ~window)
      /\ latest' \in [kind : Kind, n : Nat] \cup {Nothing}
      /\ RunsKeepTheirs' /\ WritesBackTheSame' /\ LatestDepositStays'
  <2>1. CASE UNCHANGED <<cred, deposits, latest, window>>
    BY <1>1, <2>1, SecretsKept DEF CInv, CredTypeOK
  <2>2. CASE /\ Deposited("password")
             /\ \E box \in Mailbox : cred' = Stored(cred, "password", Secret(box))
    <3>1. ~window' => ~window
      BY <2>2 DEF Deposited
    <3>. QED  BY <1>1, <1>2, <2>2, <3>1, DepositHolds
  <2>. QED  BY <2>1, <2>2 DEF SaveAccount
<1>4. CredTypeOK'
  BY <1>1, <1>3 DEF CInv, CredTypeOK
<1>5. Another' = Another
  BY <1>1, <1>3 DEF Another
<1>6. OneConsent'
  BY <1>1 DEF CInv, OneConsent, Consenting
<1>7. RequiresWhatIsThere' /\ ConnectedIsOwn' /\ AnotherIsInQuestion'
  BY <1>1, <1>3, <1>5 DEF CInv, RequiresWhatIsThere, ConnectedIsOwn, AnotherIsInQuestion
<1>. QED  BY <1>3, <1>4, <1>6, <1>7 DEF CInv

(* A page that moves on.  What it holds afterwards is typed, and nobody     *)
(* else's consent moves.                                                   *)
LEMMA PageMoves ==
    ASSUME CInv, NEW p \in Page, NEW at \in PageAt, NEW s \in SecretRec \cup {Nothing},
           page' = [page EXCEPT ![p] = [pc |-> at, secret |-> s]]
    PROVE  /\ page' \in [Page -> [pc : PageAt, secret : SecretRec \cup {Nothing}]]
           /\ page'[p].pc = at /\ page'[p].secret = s
           /\ \A q \in Page : q # p => page'[q] = page[q]
<1>1. page \in [Page -> [pc : PageAt, secret : SecretRec \cup {Nothing}]]
  BY DEF CInv, CredTypeOK
<1>. QED  BY <1>1

(* The step of a consent that is under way already. *)
LEMMA StillOneConsent ==
    ASSUME CInv, NEW p \in Page, Consenting(p), ~torn' => ~torn,
           \A q \in Page : q # p => page'[q] = page[q]
    PROVE  OneConsent' /\ (~torn' => \A q \in Page : q # p => page'[q].pc = "idle")
BY DEF CInv, OneConsent, Consenting

(* Secrets that go leave nothing to say of them.                            *)
LEMMA NoneLeft ==
    ASSUME CInv, cred' = [k \in Kind |-> Nothing], UNCHANGED <<run, latest, window>>
    PROVE  /\ cred' \in [Kind -> CredRow \cup {Nothing}]
           /\ RunsKeepTheirs' /\ WritesBackTheSame' /\ LatestDepositStays'
           /\ cred'["oauth"] = Nothing /\ ~Another'
<1>1. RunsKeepTheirs'
  BY DEF CInv, RunsKeepTheirs
<1>2. \A k \in Kind : cred'[k] = Nothing
  OBVIOUS
<1>3. "oauth" \in Kind
  BY DEF Kind
<1>4. WritesBackTheSame'
  BY <1>2, <1>1 DEF WritesBackTheSame, RunsKeepTheirs
<1>5. LatestDepositStays'
  BY <1>2 DEF LatestDepositStays, CInv, CredTypeOK
<1>. QED  BY <1>1, <1>2, <1>3, <1>4, <1>5 DEF Another

LEMMA DeleteHolds ==
    ASSUME CInv, NEW p \in Page, Delete(p)
    PROVE  CInv'
<1>1. /\ UNCHANGED <<provider, address, page, run, deposits, runs, latest, named, window, torn>>
      /\ account' = "none" /\ cred' = [k \in Kind |-> Nothing]
  BY DEF Delete, counts, hist
<1>2. /\ cred' \in [Kind -> CredRow \cup {Nothing}]
      /\ RunsKeepTheirs' /\ WritesBackTheSame' /\ LatestDepositStays'
      /\ cred'["oauth"] = Nothing /\ ~Another'
  BY <1>1, NoneLeft
<1>3. CredTypeOK'
  BY <1>1, <1>2 DEF CInv, CredTypeOK
<1>4. OneConsent'
  BY <1>1 DEF CInv, OneConsent, Consenting
<1>5. RequiresWhatIsThere' /\ ConnectedIsOwn' /\ AnotherIsInQuestion'
  BY <1>1, <1>2 DEF CInv, RequiresWhatIsThere, ConnectedIsOwn, AnotherIsInQuestion
<1>. QED  BY <1>2, <1>3, <1>4, <1>5 DEF CInv

LEMMA StartConsentHolds ==
    ASSUME CInv, NEW p \in Page, StartConsent(p)
    PROVE  CInv'
<1>. DEFINE at == IF provider.consent THEN "grant" ELSE "verify"
<1>1. /\ UNCHANGED <<provider, address, account, cred, run, deposits, runs, latest, named, window>>
      /\ page[p].pc = "idle" /\ To(p, at, Nothing)
      /\ torn' = (torn \/ \E q \in Page \ {p} : Consenting(q))
  BY DEF StartConsent, counts
<1>2. at \in {"grant", "verify"} /\ at \in PageAt
  BY DEF PageAt
<1>. HIDE DEF at
<1>3. /\ page' \in [Page -> [pc : PageAt, secret : SecretRec \cup {Nothing}]]
      /\ page'[p].pc = at /\ \A q \in Page : q # p => page'[q] = page[q]
  BY <1>1, <1>2, PageMoves DEF To
<1>4. RunsKeepTheirs' /\ WritesBackTheSame' /\ LatestDepositStays' /\ Another' = Another
  BY <1>1, SecretsKept
<1>5. CredTypeOK'
  BY <1>1, <1>3 DEF CInv, CredTypeOK, Consenting
<1>6. OneConsent'
  <2>1. ~torn' => \A q \in Page : q # p => page[q].pc = "idle"
    BY <1>1 DEF Consenting
  <2>2. ~torn' => \A q \in Page : q # p => page'[q].pc = "idle"
    BY <1>3, <2>1
  <2>. QED  BY <2>2 DEF OneConsent, Consenting
<1>7. /\ ~torn' => ~torn
      /\ \A q \in Page : page'[q].pc \in {"require", "connected"} => page'[q] = page[q]
      /\ \A q \in Page : page[q].pc \in {"verify", "require", "failed"} => page'[q] = page[q]
  BY <1>1, <1>2, <1>3
<1>8. RequiresWhatIsThere' /\ ConnectedIsOwn' /\ AnotherIsInQuestion'
  BY <1>1, <1>4, <1>7 DEF CInv, RequiresWhatIsThere, ConnectedIsOwn, AnotherIsInQuestion
<1>. QED  BY <1>4, <1>5, <1>6, <1>8 DEF CInv

(* A grant: whatever was there goes, and its own page asks about it next. *)
LEMMA GrantHolds ==
    ASSUME CInv, NEW p \in Page, Grant(p)
    PROVE  CInv'
<1>. DEFINE none == [k \in Kind |-> Nothing]
<1>1. /\ UNCHANGED <<provider, address, account, run, runs, named, torn>> /\ Deposited("oauth")
      /\ \E box \in Mailbox : cred' = Stored(none, "oauth", Secret(box))
      /\ To(p, "verify", Nothing) /\ page[p].pc = "grant"
  BY DEF Grant
<1>2. "oauth" \in Kind /\ none \in [Kind -> CredRow \cup {Nothing}] /\ "verify" \in PageAt
  BY DEF Kind, PageAt
<1>3. /\ cred' \in [Kind -> CredRow \cup {Nothing}]
      /\ deposits' \in Nat /\ window' \in BOOLEAN
      /\ latest' \in [kind : Kind, n : Nat] \cup {Nothing}
      /\ RunsKeepTheirs' /\ WritesBackTheSame' /\ LatestDepositStays'
  BY <1>1, <1>2, DepositHolds
<1>4. /\ page' \in [Page -> [pc : PageAt, secret : SecretRec \cup {Nothing}]]
      /\ page'[p].pc = "verify" /\ \A q \in Page : q # p => page'[q] = page[q]
  BY <1>1, <1>2, PageMoves DEF To
<1>5. CredTypeOK'
  BY <1>1, <1>3, <1>4 DEF CInv, CredTypeOK
<1>6. OneConsent' /\ (~torn' => \A q \in Page : q # p => page'[q].pc = "idle")
  BY <1>1, <1>4, StillOneConsent DEF Consenting
<1>7. RequiresWhatIsThere' /\ ConnectedIsOwn' /\ AnotherIsInQuestion'
  BY <1>4, <1>6 DEF RequiresWhatIsThere, ConnectedIsOwn, AnotherIsInQuestion
<1>. QED  BY <1>3, <1>5, <1>6, <1>7 DEF CInv

(* The mailbox is asked with the secret that is opened: the granted one, if *)
(* there is one.                                                           *)
LEMMA VerifyHolds ==
    ASSUME CInv, NEW p \in Page, Verify(p)
    PROVE  CInv'
<1>1. /\ UNCHANGED <<provider, address, account, cred, run, deposits, runs, latest, named, window, torn>>
      /\ page[p].pc = "verify" /\ Opens # Nothing /\ To(p, "require", Opens.secret)
  BY DEF Verify, counts, hist
<1>2. /\ cred \in [Kind -> CredRow \cup {Nothing}] /\ "oauth" \in Kind /\ "password" \in Kind
      /\ "require" \in PageAt
  BY DEF CInv, CredTypeOK, Kind, PageAt
<1>3. /\ Opens.secret \in SecretRec
      /\ cred["oauth"] # Nothing => cred["oauth"].secret = Opens.secret
  BY <1>1, <1>2 DEF Opens, CredRow
<1>4. /\ page' \in [Page -> [pc : PageAt, secret : SecretRec \cup {Nothing}]]
      /\ page'[p].pc = "require" /\ page'[p].secret = Opens.secret
      /\ \A q \in Page : q # p => page'[q] = page[q]
  BY <1>1, <1>2, <1>3, PageMoves DEF To
<1>5. RunsKeepTheirs' /\ WritesBackTheSame' /\ LatestDepositStays' /\ Another' = Another
  BY <1>1, SecretsKept
<1>6. CredTypeOK'
  BY <1>1, <1>4 DEF CInv, CredTypeOK
<1>7. OneConsent' /\ (~torn' => \A q \in Page : q # p => page'[q].pc = "idle")
  BY <1>1, <1>4, StillOneConsent DEF Consenting
<1>8. RequiresWhatIsThere' /\ ConnectedIsOwn' /\ AnotherIsInQuestion'
  BY <1>1, <1>3, <1>4, <1>7 DEF RequiresWhatIsThere, ConnectedIsOwn, AnotherIsInQuestion
<1>. QED  BY <1>5, <1>6, <1>7, <1>8 DEF CInv

(* The comparison, by the address the row names at that moment.             *)
LEMMA RequireHolds ==
    ASSUME CInv, NEW p \in Page, Require(p)
    PROVE  CInv'
<1>1. /\ UNCHANGED <<provider, address, account, run, deposits, runs, latest, window, torn>>
      /\ page[p].pc = "require" /\ {"connected", "failed"} \subseteq PageAt
  BY DEF Require, counts, hist, PageAt
<1>2. CASE page[p].secret.box = address
  <2>1. cred' = cred /\ named' = address /\ To(p, "connected", Nothing)
    BY <1>2 DEF Require
  <2>2. /\ page' \in [Page -> [pc : PageAt, secret : SecretRec \cup {Nothing}]]
        /\ page'[p].pc = "connected" /\ \A q \in Page : q # p => page'[q] = page[q]
    BY <1>1, <2>1, PageMoves DEF To
  <2>3. RunsKeepTheirs' /\ WritesBackTheSame' /\ LatestDepositStays'
    BY <1>1, <2>1, SecretsKept
  <2>4. CredTypeOK'
    BY <1>1, <2>1, <2>2 DEF CInv, CredTypeOK
  <2>5. OneConsent' /\ (~torn' => \A q \in Page : q # p => page'[q].pc = "idle")
    BY <1>1, <2>2, StillOneConsent DEF Consenting
  <2>6. ~torn' /\ ~window' => ~Another'
    BY <1>1, <1>2, <2>1 DEF CInv, RequiresWhatIsThere, Another
  <2>7. RequiresWhatIsThere' /\ ConnectedIsOwn' /\ AnotherIsInQuestion'
    BY <2>2, <2>5, <2>6 DEF RequiresWhatIsThere, ConnectedIsOwn, AnotherIsInQuestion
  <2>. QED  BY <2>3, <2>4, <2>5, <2>7 DEF CInv
<1>3. CASE page[p].secret.box # address
  <2>1. cred' = [k \in Kind |-> Nothing] /\ named' = named /\ To(p, "failed", Nothing)
    BY <1>3 DEF Require
  <2>2. /\ page' \in [Page -> [pc : PageAt, secret : SecretRec \cup {Nothing}]]
        /\ page'[p].pc = "failed" /\ \A q \in Page : q # p => page'[q] = page[q]
    BY <1>1, <2>1, PageMoves DEF To
  <2>3. /\ cred' \in [Kind -> CredRow \cup {Nothing}]
        /\ RunsKeepTheirs' /\ WritesBackTheSame' /\ LatestDepositStays' /\ ~Another'
    BY <1>1, <2>1, NoneLeft
  <2>4. CredTypeOK'
    BY <1>1, <2>1, <2>2, <2>3 DEF CInv, CredTypeOK
  <2>5. OneConsent' /\ (~torn' => \A q \in Page : q # p => page'[q].pc = "idle")
    BY <1>1, <2>2, StillOneConsent DEF Consenting
  <2>6. RequiresWhatIsThere' /\ ConnectedIsOwn' /\ AnotherIsInQuestion'
    BY <2>2, <2>3, <2>5 DEF RequiresWhatIsThere, ConnectedIsOwn, AnotherIsInQuestion
  <2>. QED  BY <2>3, <2>4, <2>5, <2>6 DEF CInv
<1>. QED  BY <1>2, <1>3

LEMMA ConsentFailsHolds ==
    ASSUME CInv, NEW p \in Page, ConsentFails(p)
    PROVE  CInv'
<1>1. /\ UNCHANGED <<provider, address, account, cred, run, deposits, runs, latest, named, window, torn>>
      /\ page[p].pc # "idle" /\ To(p, "failed", Nothing) /\ "failed" \in PageAt
  BY DEF ConsentFails, counts, hist, PageAt
<1>2. /\ page' \in [Page -> [pc : PageAt, secret : SecretRec \cup {Nothing}]]
      /\ page'[p].pc = "failed" /\ \A q \in Page : q # p => page'[q] = page[q]
  BY <1>1, PageMoves DEF To
<1>3. RunsKeepTheirs' /\ WritesBackTheSame' /\ LatestDepositStays' /\ Another' = Another
  BY <1>1, SecretsKept
<1>4. CredTypeOK'
  BY <1>1, <1>2 DEF CInv, CredTypeOK
<1>5. OneConsent' /\ (~torn' => \A q \in Page : q # p => page'[q].pc = "idle")
  BY <1>1, <1>2, StillOneConsent DEF Consenting
<1>6. RequiresWhatIsThere' /\ ConnectedIsOwn' /\ AnotherIsInQuestion'
  BY <1>2, <1>5 DEF RequiresWhatIsThere, ConnectedIsOwn, AnotherIsInQuestion
<1>. QED  BY <1>3, <1>4, <1>5, <1>6 DEF CInv

(* An account is left idle by a consent that connected it, and by no other. *)
LEMMA RecordHolds ==
    ASSUME CInv, NEW p \in Page, Record(p)
    PROVE  CInv'
<1>1. /\ UNCHANGED <<provider, address, cred, run, deposits, runs, latest, named, window, torn>>
      /\ page[p].pc \in {"connected", "failed"} /\ "idle" \in PageAt
      /\ page' = [page EXCEPT ![p] = [pc |-> "idle", secret |-> Nothing]]
      /\ account' \in {"none", "idle", "auth_error"}
      /\ account' = "idle" => page[p].pc = "connected"
  BY DEF Record, counts, hist, PageAt, NoConsent
<1>2. /\ page' \in [Page -> [pc : PageAt, secret : SecretRec \cup {Nothing}]]
      /\ page'[p].pc = "idle" /\ \A q \in Page : q # p => page'[q] = page[q]
  BY <1>1, PageMoves
<1>3. RunsKeepTheirs' /\ WritesBackTheSame' /\ LatestDepositStays' /\ Another' = Another
  BY <1>1, SecretsKept
<1>4. CredTypeOK'
  BY <1>1, <1>2 DEF CInv, CredTypeOK
<1>5. OneConsent' /\ (~torn' => \A q \in Page : q # p => page'[q].pc = "idle")
  BY <1>1, <1>2, StillOneConsent DEF Consenting
<1>6. RequiresWhatIsThere' /\ ConnectedIsOwn'
  BY <1>2, <1>5 DEF RequiresWhatIsThere, ConnectedIsOwn
<1>7. AnotherIsInQuestion'
  BY <1>1, <1>3 DEF CInv, AnotherIsInQuestion, ConnectedIsOwn
<1>. QED  BY <1>3, <1>4, <1>5, <1>6, <1>7 DEF CInv

LEMMA PageDiesHolds ==
    ASSUME CInv, NEW p \in Page, PageDies(p)
    PROVE  CInv'
<1>1. /\ UNCHANGED <<provider, address, account, cred, run, deposits, runs, latest, named, window>>
      /\ torn' = TRUE /\ "idle" \in PageAt
      /\ page' = [page EXCEPT ![p] = [pc |-> "idle", secret |-> Nothing]]
  BY DEF PageDies, counts, PageAt, NoConsent
<1>2. page' \in [Page -> [pc : PageAt, secret : SecretRec \cup {Nothing}]]
  BY <1>1, PageMoves
<1>3. RunsKeepTheirs' /\ WritesBackTheSame' /\ LatestDepositStays' /\ Another' = Another
  BY <1>1, SecretsKept
<1>4. CredTypeOK'
  BY <1>1, <1>2 DEF CInv, CredTypeOK
<1>5. OneConsent' /\ RequiresWhatIsThere' /\ ConnectedIsOwn' /\ AnotherIsInQuestion'
  BY <1>1 DEF OneConsent, RequiresWhatIsThere, ConnectedIsOwn, AnotherIsInQuestion
<1>. QED  BY <1>3, <1>4, <1>5 DEF CInv

-----------------------------------------------------------------------------
(* The runs.  None of their steps is a person's, or a consent's.            *)
Unasked == UNCHANGED <<provider, address, page, deposits, latest, named, window, torn>>

RunRec == [pc : WorkAt, opened : SecretRec \cup {Nothing}, kind : Kind \cup {Nothing},
           current : SecretRec \cup {Nothing}, row : Nat \cup {Nothing}, denied : BOOLEAN]

(* What a run may be, by itself and facing the row it writes to.            *)
RunFits(x) ==
    x.pc \in {"work", "look", "write"} =>
        /\ x.kind \in Kind /\ x.opened \in SecretRec /\ x.current \in SecretRec
        /\ SameDeposit(x.current, x.opened)

LEMMA RunMoves ==
    ASSUME CInv, NEW w \in Worker, NEW x \in RunRec, run' = [run EXCEPT ![w] = x],
           Unasked, UNCHANGED <<account, cred>>, runs' \in Nat,
           RunFits(x),
           x.pc = "write" /\ ~window /\ cred[x.kind] # Nothing =>
              SameDeposit(x.current, cred[x.kind].secret)
    PROVE  CInv'
<1>1. run \in [Worker -> RunRec]
  BY DEF CInv, CredTypeOK, RunRec
<1>2. /\ run' \in [Worker -> RunRec] /\ run'[w] = x
      /\ \A v \in Worker : v # w => run'[v] = run[v]
  BY <1>1
<1>3. CredTypeOK'
  BY <1>2 DEF CInv, CredTypeOK, Unasked, RunRec
<1>4. RunsKeepTheirs'
  BY <1>2 DEF CInv, RunsKeepTheirs, RunFits
<1>5. WritesBackTheSame'
  BY <1>2 DEF CInv, WritesBackTheSame, Unasked
<1>6. /\ LatestDepositStays' /\ OneConsent' /\ RequiresWhatIsThere'
      /\ ConnectedIsOwn' /\ AnotherIsInQuestion'
  BY DEF CInv, LatestDepositStays, OneConsent, RequiresWhatIsThere, ConnectedIsOwn,
         AnotherIsInQuestion, Another, Consenting, Unasked
<1>. QED  BY <1>3, <1>4, <1>5, <1>6 DEF CInv

LEMMA RunNow ==
    ASSUME CInv, NEW w \in Worker
    PROVE  /\ run[w] \in RunRec /\ RunFits(run[w]) /\ DOMAIN run = Worker
           /\ run[w] = [pc |-> run[w].pc, opened |-> run[w].opened, kind |-> run[w].kind,
                        current |-> run[w].current, row |-> run[w].row,
                        denied |-> run[w].denied]
<1>1. run \in [Worker -> RunRec]
  BY DEF CInv, CredTypeOK, RunRec
<1>2. RunFits(run[w])
  BY DEF CInv, RunsKeepTheirs, RunFits
<1>3. \A x \in RunRec : x = [pc |-> x.pc, opened |-> x.opened, kind |-> x.kind,
                             current |-> x.current, row |-> x.row, denied |-> x.denied]
  BY DEF RunRec
<1>. QED  BY <1>1, <1>2, <1>3

LEMMA OpenHolds ==
    ASSUME CInv, NEW w \in Worker, Open(w)
    PROVE  CInv'
<1>1. Unasked /\ UNCHANGED <<account, cred>> /\ runs' \in Nat
  BY DEF Open, Unasked, hist, CInv, CredTypeOK
<1>2. CASE Opens = Nothing
  <2>. DEFINE x == [run[w] EXCEPT !.pc = "mark"]
  <2>1. run' = [run EXCEPT ![w] = x]
    BY <1>2, RunNow DEF Open
  <2>2. x \in RunRec /\ x.pc = "mark"
    BY RunNow DEF RunRec, WorkAt
  <2>. HIDE DEF x
  <2>. QED  BY <1>1, <2>1, <2>2, RunMoves DEF RunFits
<1>3. CASE Opens # Nothing
  <2>. DEFINE s == Opens.secret
              x == [NoRun EXCEPT !.pc = "work", !.kind = OpensKind, !.opened = s, !.current = s]
  <2>1. run' = [run EXCEPT ![w] = x]
    BY <1>3 DEF Open
  <2>2. s \in SecretRec /\ OpensKind \in Kind
    BY <1>3 DEF Opens, OpensKind, Kind, CInv, CredTypeOK, CredRow
  <2>3. /\ x \in RunRec /\ x.pc = "work" /\ x.kind = OpensKind
        /\ x.opened = s /\ x.current = s
    BY <2>2 DEF RunRec, NoRun, WorkAt
  <2>4. RunFits(x)
    BY <2>2, <2>3 DEF RunFits, SameDeposit
  <2>. HIDE DEF x, s
  <2>. QED  BY <1>1, <2>1, <2>3, <2>4, RunMoves
<1>. QED  BY <1>2, <1>3

LEMMA RotateHolds ==
    ASSUME CInv, NEW w \in Worker, Rotate(w)
    PROVE  CInv'
<1>. DEFINE s == [run[w].current EXCEPT !.turn = @ + 1]
            x == [run[w] EXCEPT !.current = s]
<1>1. Unasked /\ UNCHANGED <<account, cred>> /\ runs' \in Nat /\ run[w].pc = "work"
  BY DEF Rotate, Unasked, counts, hist, CInv, CredTypeOK
<1>2. run' = [run EXCEPT ![w] = x]
  BY RunNow DEF Rotate
<1>3. run[w].current \in SecretRec
  BY <1>1, RunNow DEF RunFits
<1>4. s \in SecretRec /\ SameDeposit(s, run[w].current)
  BY <1>3 DEF SecretRec, SameDeposit
<1>. HIDE DEF s
<1>5. /\ x \in RunRec /\ x.pc = "work" /\ x.kind = run[w].kind
      /\ x.opened = run[w].opened /\ x.current = s
  BY <1>1, <1>4, RunNow DEF RunRec
<1>. HIDE DEF x
<1>6. RunFits(x)
  BY <1>1, <1>4, <1>5, RunNow DEF RunFits, SameDeposit
<1>. QED  BY <1>1, <1>2, <1>5, <1>6, RunMoves

LEMMA WalkedHolds ==
    ASSUME CInv, NEW w \in Worker, Walked(w)
    PROVE  CInv'
<1>1. Unasked /\ UNCHANGED <<account, cred>> /\ runs' \in Nat /\ run[w].pc = "work"
  BY DEF Walked, Unasked, counts, hist, CInv, CredTypeOK
<1>2. PICK denied \in BOOLEAN : run' = [run EXCEPT ![w].pc = "look", ![w].denied = denied]
  BY DEF Walked
<1>. DEFINE x == [run[w] EXCEPT !.pc = "look", !.denied = denied]
<1>3. run' = [run EXCEPT ![w] = x]
  BY <1>2, RunNow
<1>4. /\ x \in RunRec /\ x.pc = "look" /\ x.kind = run[w].kind
      /\ x.opened = run[w].opened /\ x.current = run[w].current
  BY RunNow DEF RunRec, WorkAt
<1>. HIDE DEF x
<1>5. RunFits(x)
  BY <1>1, <1>4, RunNow DEF RunFits
<1>. QED  BY <1>1, <1>3, <1>4, <1>5, RunMoves

(* _keep_refreshed_secret: the row it will write to is the one it was opened *)
(* with, and so of the same deposit as what it writes.                      *)
LEMMA LookHolds ==
    ASSUME CInv, NEW w \in Worker, Look(w)
    PROVE  CInv'
<1>. DEFINE k == run[w].kind
            found == /\ run[w].current # run[w].opened
                     /\ cred[k] # Nothing /\ cred[k].secret = run[w].opened
<1>1. Unasked /\ UNCHANGED <<account, cred>> /\ runs' \in Nat /\ run[w].pc = "look"
  BY DEF Look, Unasked, counts, hist, CInv, CredTypeOK
<1>2. CASE found
  <2>. DEFINE x == [run[w] EXCEPT !.pc = "write", !.row = cred[k].row]
  <2>1. run' = [run EXCEPT ![w] = x]
    <3>1. run' = [run EXCEPT ![w].pc = "write", ![w].row = cred[k].row]
      BY <1>2 DEF Look
    <3>. QED  BY <3>1, RunNow
  <2>2. k \in Kind /\ SameDeposit(run[w].current, run[w].opened)
    BY <1>1, RunNow DEF RunFits
  <2>3. cred[k].row \in Nat
    BY <1>2, <2>2 DEF CInv, CredTypeOK, CredRow
  <2>4. /\ x \in RunRec /\ x.pc = "write" /\ x.kind = k
        /\ x.opened = run[w].opened /\ x.current = run[w].current
    BY <2>3, RunNow DEF RunRec, WorkAt
  <2>. HIDE DEF x
  <2>5. RunFits(x)
    BY <1>1, <2>4, RunNow DEF RunFits
  <2>6. SameDeposit(x.current, cred[x.kind].secret)
    BY <1>2, <2>2, <2>4 DEF SameDeposit
  <2>. QED  BY <1>1, <2>1, <2>4, <2>5, <2>6, RunMoves
<1>3. CASE ~found
  <2>. DEFINE x == [run[w] EXCEPT !.pc = Over(w)]
  <2>1. run' = [run EXCEPT ![w] = x]
    <3>1. run' = [run EXCEPT ![w].pc = Over(w)]
      BY <1>3 DEF Look
    <3>. QED  BY <3>1, RunNow
  <2>2. Over(w) \in {"mark", "idle"}
    BY DEF Over
  <2>3. x \in RunRec /\ x.pc = Over(w)
    BY <2>2, RunNow DEF RunRec, WorkAt
  <2>. HIDE DEF x
  <2>. QED  BY <1>1, <2>1, <2>2, <2>3, RunMoves DEF RunFits
<1>. QED  BY <1>2, <1>3

(* The UPDATE.  Whatever row it meets, it is of the deposit it writes.      *)
LEMMA WriteBackHolds ==
    ASSUME CInv, NEW w \in Worker, WriteBack(w)
    PROVE  CInv'
<1>. DEFINE k == run[w].kind
            x == [run[w] EXCEPT !.pc = Over(w)]
<1>1. /\ Unasked /\ UNCHANGED <<account, runs>> /\ run[w].pc = "write"
      /\ run' = [run EXCEPT ![w].pc = Over(w)]
  BY DEF WriteBack, Unasked, counts, hist
<1>2. k \in Kind /\ run[w].current \in SecretRec /\ cred \in [Kind -> CredRow \cup {Nothing}]
  BY <1>1, RunNow DEF RunFits, CInv, CredTypeOK
<1>3. \/ cred' = cred
      \/ cred[k] # Nothing /\ cred' = [cred EXCEPT ![k].secret = run[w].current]
  BY DEF WriteBack
<1>4. CASE cred' = cred
  <2>1. run' = [run EXCEPT ![w] = x]
    BY <1>1, RunNow
  <2>2. Over(w) \in {"mark", "idle"}
    BY DEF Over
  <2>3. x \in RunRec /\ x.pc = Over(w)
    BY <2>2, RunNow DEF RunRec, WorkAt
  <2>4. runs' \in Nat
    BY <1>1 DEF CInv, CredTypeOK
  <2>. HIDE DEF x
  <2>. QED  BY <1>1, <1>4, <2>1, <2>2, <2>3, <2>4, RunMoves DEF RunFits
<1>5. CASE cred[k] # Nothing /\ cred' = [cred EXCEPT ![k].secret = run[w].current]
  <2>. DEFINE c == [cred[k] EXCEPT !.secret = run[w].current]
  <2>1. cred' = [cred EXCEPT ![k] = c] /\ c \in CredRow /\ c.secret = run[w].current
    BY <1>2, <1>5 DEF CredRow
  <2>. HIDE DEF c
  <2>2. /\ cred' \in [Kind -> CredRow \cup {Nothing}]
        /\ cred'[k].secret = run[w].current
        /\ \A j \in Kind : j # k => cred'[j] = cred[j]
    BY <1>2, <2>1
  <2>3. ~window => SameDeposit(run[w].current, cred[k].secret)
    BY <1>1, <1>5 DEF CInv, WritesBackTheSame
  <2>4. \A j \in Kind : ~window /\ cred'[j] # Nothing =>
          cred[j] # Nothing /\ SameDeposit(cred'[j].secret, cred[j].secret)
    BY <1>5, <2>2, <2>3 DEF SameDeposit
  <2>5. x \in RunRec /\ x.pc \in {"mark", "idle"}
    BY RunNow DEF RunRec, WorkAt, Over
  <2>6. /\ run' \in [Worker -> RunRec] /\ run'[w] = x
        /\ \A v \in Worker : v # w => run'[v] = run[v]
    <3>1. run' = [run EXCEPT ![w] = x] /\ run \in [Worker -> RunRec]
      BY <1>1, RunNow DEF CInv, CredTypeOK, RunRec
    <3>. HIDE DEF x
    <3>. QED  BY <2>5, <3>1
  <2>. HIDE DEF x
  <2>7. CredTypeOK'
    BY <1>1, <2>2, <2>6 DEF CInv, CredTypeOK, Unasked, RunRec
  <2>8. RunsKeepTheirs'
    BY <2>5, <2>6 DEF CInv, RunsKeepTheirs
  <2>9. WritesBackTheSame'
    <3>. SUFFICES ASSUME ~window', NEW v \in Worker, run'[v].pc = "write",
                         cred'[run'[v].kind] # Nothing
         PROVE  SameDeposit(run'[v].current, cred'[run'[v].kind].secret)
      BY DEF WritesBackTheSame
    <3>1. v # w /\ run'[v] = run[v] /\ ~window
      BY <1>1, <2>5, <2>6 DEF Unasked
    <3>2. run[v].kind \in Kind
      BY <3>1 DEF CInv, RunsKeepTheirs
    <3>3. cred[run[v].kind] # Nothing
          /\ SameDeposit(cred'[run[v].kind].secret, cred[run[v].kind].secret)
      BY <2>4, <3>1, <3>2
    <3>4. SameDeposit(run[v].current, cred[run[v].kind].secret)
      BY <3>1, <3>3 DEF CInv, WritesBackTheSame
    <3>. QED  BY <3>1, <3>3, <3>4 DEF SameDeposit
  <2>10. LatestDepositStays'
    <3>. SUFFICES ASSUME ~window', latest' # Nothing, cred'[latest'.kind] # Nothing
         PROVE  cred'[latest'.kind].secret.n = latest'.n
      BY DEF LatestDepositStays
    <3>1. ~window /\ latest' = latest /\ latest # Nothing /\ latest.kind \in Kind
      BY <1>1 DEF Unasked, CInv, CredTypeOK
    <3>2. cred[latest.kind] # Nothing
          /\ SameDeposit(cred'[latest.kind].secret, cred[latest.kind].secret)
      BY <2>4, <3>1
    <3>. QED  BY <3>1, <3>2 DEF CInv, LatestDepositStays, SameDeposit
  <2>11. ~window /\ cred'["oauth"] # Nothing =>
           cred["oauth"] # Nothing /\ cred'["oauth"].secret.box = cred["oauth"].secret.box
    BY <2>4 DEF SameDeposit, Kind
  <2>12. OneConsent' /\ RequiresWhatIsThere' /\ ConnectedIsOwn' /\ AnotherIsInQuestion'
    BY <1>1, <2>11 DEF CInv, OneConsent, RequiresWhatIsThere, ConnectedIsOwn,
                       AnotherIsInQuestion, Another, Consenting, Unasked
  <2>. QED  BY <2>7, <2>8, <2>9, <2>10, <2>12 DEF CInv
<1>. QED  BY <1>3, <1>4, <1>5

LEMMA MarkDiesHolds ==
    ASSUME CInv, NEW w \in Worker, MarkAuthError(w) \/ WorkerDies(w)
    PROVE  CInv'
<1>1. /\ Unasked /\ UNCHANGED <<cred, runs>> /\ run' = [run EXCEPT ![w] = NoRun]
      /\ account' \in {account, "none", "auth_error"} /\ (account' = "none" => account = "none")
  BY DEF MarkAuthError, WorkerDies, Unasked, counts, hist
<1>2. run \in [Worker -> RunRec] /\ NoRun \in RunRec /\ NoRun.pc = "idle"
  BY DEF CInv, CredTypeOK, RunRec, NoRun, WorkAt
<1>3. /\ run' \in [Worker -> RunRec] /\ run'[w].pc = "idle"
      /\ \A v \in Worker : v # w => run'[v] = run[v]
  BY <1>1, <1>2
<1>4. CredTypeOK'
  BY <1>1, <1>3 DEF CInv, CredTypeOK, Unasked, RunRec
<1>5. RunsKeepTheirs' /\ WritesBackTheSame'
  BY <1>1, <1>3 DEF CInv, RunsKeepTheirs, WritesBackTheSame, Unasked
<1>6. /\ LatestDepositStays' /\ OneConsent' /\ RequiresWhatIsThere'
      /\ ConnectedIsOwn' /\ AnotherIsInQuestion'
  BY <1>1 DEF CInv, LatestDepositStays, OneConsent, RequiresWhatIsThere, ConnectedIsOwn,
              AnotherIsInQuestion, Another, Consenting, Unasked
<1>. QED  BY <1>4, <1>5, <1>6 DEF CInv

LEMMA CredStep == CInv /\ [CredentialNext]_credentialVars => CInv'
<1>. SUFFICES ASSUME CInv, [CredentialNext]_credentialVars  PROVE CInv'
  OBVIOUS
<1>1. ASSUME NEW p \in Page,
             \/ SaveAccount(p) \/ Delete(p) \/ StartConsent(p) \/ Grant(p) \/ Verify(p)
             \/ Require(p) \/ ConsentFails(p) \/ Record(p) \/ PageDies(p)
      PROVE  CInv'
  BY <1>1, SaveAccountHolds, DeleteHolds, StartConsentHolds, GrantHolds, VerifyHolds,
     RequireHolds, ConsentFailsHolds, RecordHolds, PageDiesHolds
<1>2. ASSUME NEW w \in Worker,
             \/ Open(w) \/ Rotate(w) \/ Walked(w) \/ Look(w) \/ WriteBack(w)
             \/ MarkAuthError(w) \/ WorkerDies(w)
      PROVE  CInv'
  BY <1>2, OpenHolds, RotateHolds, WalkedHolds, LookHolds, WriteBackHolds, MarkDiesHolds
<1>3. CASE UNCHANGED credentialVars
  BY <1>3 DEF credentialVars, counts, hist, CInv, CredTypeOK, RunsKeepTheirs,
              WritesBackTheSame, LatestDepositStays, OneConsent, RequiresWhatIsThere,
              ConnectedIsOwn, AnotherIsInQuestion, Another, Consenting
<1>. QED  BY <1>1, <1>2, <1>3 DEF CredentialNext

(* However late a run ends, it writes no token of an earlier deposit over a  *)
(* later one (_keep_refreshed_secret), outside the window between its two    *)
(* statements.                                                             *)
THEOREM LatestDepositsStay == CredentialSpec => []LatestDepositStays
<1>1. CInv => LatestDepositStays
  BY DEF CInv
<1>. QED  BY <1>1, CredInit, CredStep, PTL DEF CredentialSpec

(* The grant of an account that a consent left idle opens the mailbox whose  *)
(* address the row had when it was compared (_require_same_mailbox,          *)
(* _record), however the row was edited and whatever was opened meanwhile.   *)
(* Excused are consents that overlapped or died half way, and a worker's     *)
(* two statements.                                                           *)
THEOREM IdleAccountsOpenWhatWasCompared ==
    CredentialSpec => []IdleOpensTheComparedMailbox
<1>1. CInv => IdleOpensTheComparedMailbox
  BY DEF CInv, AnotherIsInQuestion, Another, IdleOpensTheComparedMailbox, Settled, Consenting
<1>. QED  BY <1>1, CredInit, CredStep, PTL DEF CredentialSpec

-----------------------------------------------------------------------------
(* The settings row.                                                        *)
HIDE CredentialAssumption

Reading == [value : Nat, base : Nat \cup {None}, whole : BOOLEAN]

Handler == [pc : {"idle", "write", "reload", "adopt", "config", "baseline", "apply"},
            kind : {"load", "save", "clear", "reset", "recount", None},
            form : Form \cup {None}, shown : Reading, value : Nat]

FormRec == [shown : Reading, saving : BOOLEAN, loading : BOOLEAN]

RowTypeOK ==
    /\ row \in [value : Nat, stamp : Nat] \cup {None} /\ config \in Nat
    /\ writes \in Nat /\ lost \in BOOLEAN

FormTypeOK == form \in [Form -> FormRec]

TaskTypeOK ==
    /\ task \in [Task -> Handler]
    /\ \A t \in Task : task[t].pc # "idle" => task[t].form \in Form

StampIsPast == row # None => row.stamp <= writes

(* What a whole reading says of the row.                                   *)
True(shown, r, n) ==
    shown.whole =>
        /\ r # None /\ shown.base \in Nat /\ shown.base <= n
        /\ shown.base = r.stamp => shown.value = r.value

FormsAreTrue == \A f \in Form : True(form[f].shown, row, writes)
TasksAreTrue == \A t \in Task : True(task[t].shown, row, writes)

Inv ==
    /\ RowTypeOK
    /\ FormTypeOK
    /\ TaskTypeOK
    /\ StampIsPast
    /\ FormsAreTrue
    /\ TasksAreTrue
    /\ NoSilentOverwrite

USE SettingsAssumption

LEMMA InitHolds == Init => Inv
<1> SUFFICES ASSUME Init PROVE Inv
  OBVIOUS
<1>1. row = None \/ row = [value |-> 0, stamp |-> 0]
  BY DEF Init
<1>2. RowTypeOK
  <2>1. row \in [value : Nat, stamp : Nat] \cup {None}
    BY <1>1
  <2>2. QED  BY <2>1 DEF Init, RowTypeOK
<1>3. FormTypeOK
  BY DEF Init, FormTypeOK, FormRec, Fresh, Shown, Reading
<1>4. TaskTypeOK
  BY DEF Init, TaskTypeOK, Handler, Idle, Shown, Reading
<1>5. StampIsPast /\ FormsAreTrue /\ TasksAreTrue /\ NoSilentOverwrite
  BY <1>1 DEF Init, StampIsPast, FormsAreTrue, TasksAreTrue, True,
              NoSilentOverwrite, Fresh, Idle, Shown
<1>6. QED  BY <1>2, <1>3, <1>4, <1>5 DEF Inv

-----------------------------------------------------------------------------
(* What one assignment to a page, or to a task, leaves as it was.          *)
LEMMA PageIsSet ==
    ASSUME FormTypeOK, FormsAreTrue, NEW f \in Form, NEW p \in FormRec, Set(f, p),
           True(p.shown, row, writes), UNCHANGED <<row, writes>>
    PROVE  FormTypeOK' /\ FormsAreTrue'
BY DEF FormTypeOK, FormsAreTrue, Set

LEMMA TaskIsPut ==
    ASSUME TaskTypeOK, NEW t \in Task, NEW h \in Handler, Put(t, h),
           h.pc # "idle" => h.form \in Form
    PROVE  TaskTypeOK' /\ task'[t] = h /\ \A u \in Task \ {t} : task'[u] = task[u]
BY DEF TaskTypeOK, Put

LEMMA TruthIsPut ==
    ASSUME TaskTypeOK, TasksAreTrue, NEW t \in Task, NEW h \in Handler, Put(t, h),
           h.pc # "idle" => h.form \in Form,
           True(h.shown, row, writes), UNCHANGED <<row, writes>>
    PROVE  TaskTypeOK' /\ TasksAreTrue'
<1>1. TaskTypeOK' /\ task'[t] = h /\ \A u \in Task \ {t} : task'[u] = task[u]
  BY TaskIsPut
<1>2. QED  BY <1>1 DEF TasksAreTrue

LEMMA IdleIsTrue == Idle \in Handler /\ True(Idle.shown, row, writes)
BY DEF Idle, Handler, Shown, Reading, True

(* A commit is younger than every reading: no baseline names it yet.       *)
LEMMA CommitLeavesTruth ==
    ASSUME NEW r \in Reading, RowTypeOK, StampIsPast, True(r, row, writes),
           NEW v \in Nat, Commits(v)
    PROVE  True(r, row', writes')
<1>1. row' \in [value : Nat, stamp : Nat]
  BY DEF Commits, RowTypeOK
<1>2. row' # None /\ row'.stamp = writes + 1 /\ writes' = writes + 1
  BY <1>1 DEF Commits
<1>3. QED  BY <1>2 DEF True, RowTypeOK, StampIsPast, Reading

LEMMA CommitIsTyped ==
    ASSUME RowTypeOK, NEW v \in Nat, Commits(v), UNCHANGED config, lost' \in BOOLEAN
    PROVE  RowTypeOK' /\ StampIsPast'
BY DEF RowTypeOK, StampIsPast, Commits

LEMMA LoadHolds ==
    ASSUME Inv, NEW t \in Task, NEW f \in Form, Load(t, f) PROVE Inv'
<1> DEFINE h == [Idle EXCEPT !.pc = "config", !.kind = "load", !.form = f, !.shown = Shown]
<1>1. h \in Handler /\ h.form = f /\ True(h.shown, row, writes)
  BY DEF Idle, Shown, Handler, Reading, True
<1>2. Put(t, h) /\ UNCHANGED <<row, writes>>
  BY DEF Load, Begin
<1>3. TaskTypeOK' /\ TasksAreTrue'
  BY <1>1, <1>2, TruthIsPut DEF Inv
<1>4. FormTypeOK' /\ FormsAreTrue'
  <2> DEFINE p == [form[f] EXCEPT !.loading = TRUE]
  <2>1. p \in FormRec /\ p.shown = form[f].shown /\ Set(f, p)
    BY DEF Inv, FormTypeOK, FormRec, Load
  <2>2. QED  BY <1>2, <2>1, PageIsSet DEF Inv, FormsAreTrue
<1>5. RowTypeOK' /\ StampIsPast' /\ NoSilentOverwrite'
  BY DEF Inv, Load, RowTypeOK, StampIsPast, NoSilentOverwrite
<1>6. QED  BY <1>3, <1>4, <1>5 DEF Inv

LEMMA PressHolds ==
    ASSUME Inv, NEW t \in Task, NEW f \in Form, Press(t, f) PROVE Inv'
<1>1. PICK kind \in {"save", "clear", "reset"} : Begin(t, kind, f, "write")
  BY DEF Press
<1> DEFINE h == [Idle EXCEPT !.pc = "write", !.kind = kind, !.form = f,
                  !.shown = IF kind = "save" THEN form[f].shown ELSE Shown]
           p == [form[f] EXCEPT !.saving = TRUE]
<1>2. form[f].shown \in Reading /\ True(form[f].shown, row, writes)
  BY DEF Inv, FormTypeOK, FormRec, FormsAreTrue
<1>3. Shown \in Reading /\ True(Shown, row, writes)
  BY DEF Shown, Reading, True
<1>4. h.shown \in Reading /\ True(h.shown, row, writes)
  BY <1>2, <1>3 DEF Idle
<1>5. h \in Handler /\ h.form = f
  BY <1>4 DEF Idle, Handler
<1>6. Put(t, h) /\ UNCHANGED <<row, writes>>
  BY <1>1 DEF Press, Begin
<1>7. TaskTypeOK' /\ TasksAreTrue'
  BY <1>4, <1>5, <1>6, TruthIsPut DEF Inv
<1>8. p \in FormRec /\ p.shown = form[f].shown /\ Set(f, p)
  BY DEF Inv, FormTypeOK, FormRec, Press
<1>9. FormTypeOK' /\ FormsAreTrue'
  BY <1>2, <1>6, <1>8, PageIsSet DEF Inv
<1>10. RowTypeOK' /\ StampIsPast' /\ NoSilentOverwrite'
  BY DEF Inv, Press, RowTypeOK, StampIsPast, NoSilentOverwrite
<1>11. QED  BY <1>7, <1>9, <1>10 DEF Inv

LEMMA JobEndedHolds ==
    ASSUME Inv, NEW t \in Task, NEW f \in Form, JobEnded(t, f) PROVE Inv'
<1> DEFINE h == [Idle EXCEPT !.pc = "config", !.kind = "recount", !.form = f, !.shown = Shown]
<1>1. h \in Handler /\ h.form = f /\ True(h.shown, row, writes)
  BY DEF Idle, Shown, Handler, Reading, True
<1>2. Put(t, h) /\ UNCHANGED <<row, writes>>
  BY DEF JobEnded, Begin
<1>3. TaskTypeOK' /\ TasksAreTrue'
  BY <1>1, <1>2, TruthIsPut DEF Inv
<1>4. FormTypeOK' /\ FormsAreTrue'
  BY DEF Inv, FormTypeOK, FormsAreTrue, JobEnded
<1>5. RowTypeOK' /\ StampIsPast' /\ NoSilentOverwrite'
  BY DEF Inv, JobEnded, RowTypeOK, StampIsPast, NoSilentOverwrite
<1>6. QED  BY <1>3, <1>4, <1>5 DEF Inv

LEMMA SaveHolds ==
    ASSUME Inv, NEW t \in Task, Save(t) PROVE Inv'
<1> DEFINE h == [task[t] EXCEPT !.pc = "reload", !.shown = Shown]
<1>1. task[t] \in Handler /\ task[t].pc # "idle" /\ Put(t, h)
  BY DEF Inv, TaskTypeOK, Save, At, Written
<1>2. h \in Handler /\ h.form = task[t].form /\ h.shown = Shown
  BY <1>1 DEF Handler, Shown, Reading
<1>3. TaskTypeOK' /\ task'[t] = h /\ \A u \in Task \ {t} : task'[u] = task[u]
  BY <1>1, <1>2, TaskIsPut DEF Inv, TaskTypeOK
<1>4. Commits(writes + 1) /\ writes + 1 \in Nat /\ UNCHANGED <<form, config>>
  BY DEF Save, Inv, RowTypeOK
<1>5. NoSilentOverwrite'
  <2>1. task[t].shown \in Reading /\ True(task[t].shown, row, writes)
    BY <1>1 DEF Handler, Inv, TasksAreTrue
  <2>2. task[t].shown.whole => task[t].shown.value = Value
    BY <2>1 DEF Save, Moved, Stamp, Value, True
  <2>3. QED  BY <2>2 DEF Save, Inv, NoSilentOverwrite
<1>6. RowTypeOK' /\ StampIsPast'
  <2>1. lost' \in BOOLEAN
    BY DEF Save
  <2>2. QED  BY <1>4, <2>1, CommitIsTyped DEF Inv
<1>7. FormTypeOK' /\ FormsAreTrue'
  BY <1>4, CommitLeavesTruth DEF Inv, FormTypeOK, FormsAreTrue, FormRec
<1>8. TasksAreTrue'
  <2>1. True(Shown, row', writes')
    BY DEF Shown, True
  <2>2. \A u \in Task : True(task[u].shown, row', writes')
    BY <1>4, CommitLeavesTruth DEF Inv, TaskTypeOK, TasksAreTrue, Handler
  <2>3. QED  BY <1>2, <1>3, <2>1, <2>2 DEF TasksAreTrue
<1>9. QED  BY <1>3, <1>5, <1>6, <1>7, <1>8 DEF Inv

LEMMA ForgetHolds ==
    ASSUME Inv, NEW t \in Task, Forget(t) PROVE Inv'
<1> DEFINE h == [task[t] EXCEPT !.pc = "reload", !.shown = Shown]
<1>1. task[t] \in Handler /\ task[t].pc # "idle" /\ Put(t, h)
  BY DEF Inv, TaskTypeOK, Forget, At, Written
<1>2. h \in Handler /\ h.form = task[t].form /\ h.shown = Shown
  BY <1>1 DEF Handler, Shown, Reading
<1>3. TaskTypeOK' /\ task'[t] = h /\ \A u \in Task \ {t} : task'[u] = task[u]
  BY <1>1, <1>2, TaskIsPut DEF Inv, TaskTypeOK
<1>4. CASE UNCHANGED <<row, writes>>
  <2>1. True(Shown, row, writes)
    BY DEF Shown, True
  <2>2. TasksAreTrue'
    BY <1>2, <1>3, <1>4, <2>1 DEF Inv, TasksAreTrue
  <2>3. QED
    BY <1>3, <1>4, <2>2
    DEF Inv, Forget, RowTypeOK, FormTypeOK, StampIsPast, FormsAreTrue,
        NoSilentOverwrite
<1>5. CASE \E v \in Nat : Commits(v)
  <2>1. PICK v \in Nat : Commits(v)
    BY <1>5
  <2>2. UNCHANGED <<form, config, lost>>
    BY DEF Forget
  <2>3. RowTypeOK' /\ StampIsPast' /\ NoSilentOverwrite'
    BY <2>1, <2>2, CommitIsTyped DEF Inv, RowTypeOK, NoSilentOverwrite
  <2>4. FormTypeOK' /\ FormsAreTrue'
    BY <2>1, <2>2, CommitLeavesTruth DEF Inv, FormTypeOK, FormsAreTrue, FormRec
  <2>5. TasksAreTrue'
    <3>1. True(Shown, row', writes')
      BY DEF Shown, True
    <3>2. \A u \in Task : True(task[u].shown, row', writes')
      BY <2>1, CommitLeavesTruth DEF Inv, TaskTypeOK, TasksAreTrue, Handler
    <3>3. QED  BY <1>2, <1>3, <3>1, <3>2 DEF TasksAreTrue
  <2>6. QED  BY <1>3, <2>3, <2>4, <2>5 DEF Inv
<1>6. QED
  <2>1. (IF task[t].kind = "reset" THEN 0 ELSE Value) \in Nat
    BY DEF Inv, RowTypeOK, Value
  <2>2. QED  BY <1>4, <1>5, <2>1 DEF Forget

LEMMA RefusedHolds ==
    ASSUME Inv, NEW t \in Task, Refused(t) PROVE Inv'
<1> DEFINE h == [task[t] EXCEPT !.pc = "reload", !.shown = Shown]
<1>1. task[t] \in Handler /\ task[t].pc # "idle"
  BY DEF Inv, TaskTypeOK, Refused, At
<1>2. h \in Handler /\ h.form = task[t].form /\ True(h.shown, row, writes)
  BY <1>1 DEF Handler, Shown, Reading, True
<1>3. Put(t, h) /\ UNCHANGED <<row, writes>>
  BY DEF Refused, Goto, Written
<1>4. TaskTypeOK' /\ TasksAreTrue'
  BY <1>1, <1>2, <1>3, TruthIsPut DEF Inv, TaskTypeOK
<1>5. FormTypeOK' /\ FormsAreTrue'
  BY DEF Inv, FormTypeOK, FormsAreTrue, Refused
<1>6. RowTypeOK' /\ StampIsPast' /\ NoSilentOverwrite'
  BY DEF Inv, Refused, RowTypeOK, StampIsPast, NoSilentOverwrite
<1>7. QED  BY <1>4, <1>5, <1>6 DEF Inv

LEMMA ReloadHolds ==
    ASSUME Inv, NEW t \in Task, Reload(t) PROVE Inv'
<1> DEFINE h == [task[t] EXCEPT !.pc = "adopt", !.value = Value]
<1>1. task[t] \in Handler /\ task[t].pc # "idle"
  BY DEF Inv, TaskTypeOK, Reload, At
<1>2. h \in Handler /\ h.form = task[t].form /\ True(h.shown, row, writes)
  BY <1>1 DEF Inv, RowTypeOK, Value, TasksAreTrue, Handler, Reading
<1>3. Put(t, h) /\ UNCHANGED <<row, writes>>
  BY DEF Reload, Goto, Written
<1>4. TaskTypeOK' /\ TasksAreTrue'
  BY <1>1, <1>2, <1>3, TruthIsPut DEF Inv, TaskTypeOK
<1>5. FormTypeOK' /\ FormsAreTrue'
  BY DEF Inv, FormTypeOK, FormsAreTrue, Reload
<1>6. RowTypeOK' /\ StampIsPast' /\ NoSilentOverwrite'
  BY DEF Inv, Reload, RowTypeOK, StampIsPast, NoSilentOverwrite
<1>7. QED  BY <1>4, <1>5, <1>6 DEF Inv

LEMMA AdoptHolds ==
    ASSUME Inv, NEW t \in Task, Adopt(t) PROVE Inv'
<1> DEFINE h == [task[t] EXCEPT !.pc = "config", !.value = 0]
<1>1. task[t] \in Handler /\ task[t].pc # "idle"
  BY DEF Inv, TaskTypeOK, Adopt, At
<1>2. h \in Handler /\ h.form = task[t].form /\ True(h.shown, row, writes)
  BY <1>1 DEF Inv, TasksAreTrue, Handler, Reading
<1>3. Put(t, h) /\ UNCHANGED <<row, writes>>
  BY DEF Adopt, Goto, Written
<1>4. TaskTypeOK' /\ TasksAreTrue'
  BY <1>1, <1>2, <1>3, TruthIsPut DEF Inv, TaskTypeOK
<1>5. FormTypeOK' /\ FormsAreTrue'
  BY DEF Inv, FormTypeOK, FormsAreTrue, Adopt
<1>6. RowTypeOK' /\ StampIsPast' /\ NoSilentOverwrite'
  BY DEF Inv, Adopt, RowTypeOK, StampIsPast, NoSilentOverwrite, TaskTypeOK, Handler
<1>7. QED  BY <1>4, <1>5, <1>6 DEF Inv

LEMMA NotAdoptedHolds ==
    ASSUME Inv, NEW t \in Task, NotAdopted(t) PROVE Inv'
<1> DEFINE h == [task[t] EXCEPT !.pc = "config"]
<1>1. task[t] \in Handler /\ task[t].pc # "idle"
  BY DEF Inv, TaskTypeOK, NotAdopted, At
<1>2. h \in Handler /\ h.form = task[t].form /\ True(h.shown, row, writes)
  BY <1>1 DEF Inv, TasksAreTrue, Handler, Reading
<1>3. Put(t, h) /\ UNCHANGED <<row, writes>>
  BY DEF NotAdopted, Goto, Written
<1>4. TaskTypeOK' /\ TasksAreTrue'
  BY <1>1, <1>2, <1>3, TruthIsPut DEF Inv, TaskTypeOK
<1>5. FormTypeOK' /\ FormsAreTrue'
  BY DEF Inv, FormTypeOK, FormsAreTrue, NotAdopted
<1>6. RowTypeOK' /\ StampIsPast' /\ NoSilentOverwrite'
  BY DEF Inv, NotAdopted, RowTypeOK, StampIsPast, NoSilentOverwrite
<1>7. QED  BY <1>4, <1>5, <1>6 DEF Inv

LEMMA ReadConfigHolds ==
    ASSUME Inv, NEW t \in Task, ReadConfig(t) PROVE Inv'
<1> DEFINE h == [task[t] EXCEPT !.pc = "baseline", !.value = config]
<1>1. task[t] \in Handler /\ task[t].pc # "idle"
  BY DEF Inv, TaskTypeOK, ReadConfig, At
<1>2. h \in Handler /\ h.form = task[t].form /\ True(h.shown, row, writes)
  BY <1>1 DEF Inv, RowTypeOK, TasksAreTrue, Handler, Reading
<1>3. Put(t, h) /\ UNCHANGED <<row, writes>>
  BY DEF ReadConfig, Goto, Written
<1>4. TaskTypeOK' /\ TasksAreTrue'
  BY <1>1, <1>2, <1>3, TruthIsPut DEF Inv, TaskTypeOK
<1>5. FormTypeOK' /\ FormsAreTrue'
  BY DEF Inv, FormTypeOK, FormsAreTrue, ReadConfig
<1>6. RowTypeOK' /\ StampIsPast' /\ NoSilentOverwrite'
  BY DEF Inv, ReadConfig, RowTypeOK, StampIsPast, NoSilentOverwrite
<1>7. QED  BY <1>4, <1>5, <1>6 DEF Inv

LEMMA ReadBaselineHolds ==
    ASSUME Inv, NEW t \in Task, ReadBaseline(t) PROVE Inv'
<1> DEFINE r == [value |-> task[t].value, base |-> Stamp,
                 whole |-> row # None /\ task[t].value = Value]
           h == [task[t] EXCEPT !.pc = "apply", !.value = 0, !.shown = r]
<1>1. task[t] \in Handler /\ task[t].pc # "idle"
  BY DEF Inv, TaskTypeOK, ReadBaseline, At
<1>2. r \in Reading
  BY <1>1 DEF Inv, RowTypeOK, Stamp, Reading, Handler
<1>3. True(r, row, writes)
  BY DEF Inv, RowTypeOK, StampIsPast, True, Stamp, Value
<1>4. h \in Handler /\ h.form = task[t].form /\ h.shown = r
  BY <1>1, <1>2 DEF Handler
<1>5. Put(t, h) /\ UNCHANGED <<row, writes>>
  BY DEF ReadBaseline
<1>6. TaskTypeOK' /\ TasksAreTrue'
  BY <1>1, <1>3, <1>4, <1>5, TruthIsPut DEF Inv, TaskTypeOK
<1>7. FormTypeOK' /\ FormsAreTrue'
  BY DEF Inv, FormTypeOK, FormsAreTrue, ReadBaseline
<1>8. RowTypeOK' /\ StampIsPast' /\ NoSilentOverwrite'
  BY DEF Inv, ReadBaseline, RowTypeOK, StampIsPast, NoSilentOverwrite
<1>9. QED  BY <1>6, <1>7, <1>8 DEF Inv

LEMMA WriteFailsHolds ==
    ASSUME Inv, NEW t \in Task, WriteFails(t) PROVE Inv'
<1>1. task[t].pc # "idle" /\ Put(t, Idle) /\ UNCHANGED <<row, writes>>
  BY DEF WriteFails, Finish, At
<1>2. TaskTypeOK' /\ TasksAreTrue'
  BY <1>1, TruthIsPut, IdleIsTrue DEF Inv, Idle
<1>3. Mine(t) \in Form
  BY <1>1 DEF Inv, TaskTypeOK, Mine
<1>4. FormTypeOK' /\ FormsAreTrue'
  <2> DEFINE p == [form[Mine(t)] EXCEPT !.saving = FALSE]
  <2>1. p \in FormRec /\ p.shown = form[Mine(t)].shown /\ Set(Mine(t), p)
    BY <1>3 DEF Inv, FormTypeOK, FormRec, WriteFails
  <2>2. QED  BY <1>1, <1>3, <2>1, PageIsSet DEF Inv, FormsAreTrue
<1>5. RowTypeOK' /\ StampIsPast' /\ NoSilentOverwrite'
  BY DEF Inv, WriteFails, RowTypeOK, StampIsPast, NoSilentOverwrite
<1>6. QED  BY <1>2, <1>4, <1>5 DEF Inv

LEMMA ReadFailsHolds ==
    ASSUME Inv, NEW t \in Task, ReadFails(t) PROVE Inv'
<1>1. task[t].pc # "idle" /\ Put(t, Idle) /\ UNCHANGED <<row, writes>>
  BY DEF ReadFails, Finish, At
<1>2. TaskTypeOK' /\ TasksAreTrue'
  BY <1>1, TruthIsPut, IdleIsTrue DEF Inv, Idle
<1>3. Mine(t) \in Form
  BY <1>1 DEF Inv, TaskTypeOK, Mine
<1>4. FormTypeOK' /\ FormsAreTrue'
  <2>1. \A f \in Form : form[f] \in FormRec
    BY DEF Inv, FormTypeOK
  <2>2. \A p \in FormRec : /\ [p EXCEPT !.loading = FALSE] \in FormRec
                        /\ [p EXCEPT !.saving = FALSE] \in FormRec
    BY DEF FormRec
  <2>3. PICK p \in FormRec : Set(Mine(t), p) /\ p.shown = form[Mine(t)].shown
    BY <1>3, <2>1, <2>2 DEF FormRec, ReadFails
  <2>4. QED  BY <1>1, <1>3, <2>3, PageIsSet DEF Inv, FormsAreTrue
<1>5. RowTypeOK' /\ StampIsPast' /\ NoSilentOverwrite'
  BY DEF Inv, ReadFails, RowTypeOK, StampIsPast, NoSilentOverwrite
<1>6. QED  BY <1>2, <1>4, <1>5 DEF Inv

LEMMA ApplyHolds ==
    ASSUME Inv, NEW t \in Task, Apply(t) PROVE Inv'
<1>1. task[t].pc # "idle" /\ Put(t, Idle) /\ UNCHANGED <<row, writes>>
  BY DEF Apply, Finish, At
<1>2. TaskTypeOK' /\ TasksAreTrue'
  BY <1>1, TruthIsPut, IdleIsTrue DEF Inv, Idle
<1>3. Mine(t) \in Form
  BY <1>1 DEF Inv, TaskTypeOK, Mine
<1>4. FormTypeOK' /\ FormsAreTrue'
  <2> DEFINE p == [form[Mine(t)] EXCEPT !.shown = task[t].shown,
                                        !.saving = FALSE, !.loading = FALSE]
  <2>1. task[t].shown \in Reading /\ True(task[t].shown, row, writes)
    BY DEF Inv, TaskTypeOK, TasksAreTrue, Handler
  <2>2. p \in FormRec /\ p.shown = task[t].shown /\ Set(Mine(t), p)
    BY <1>3, <2>1 DEF Inv, FormTypeOK, FormRec, Apply
  <2>3. QED  BY <1>1, <1>3, <2>1, <2>2, PageIsSet DEF Inv
<1>5. RowTypeOK' /\ StampIsPast' /\ NoSilentOverwrite'
  BY DEF Inv, Apply, RowTypeOK, StampIsPast, NoSilentOverwrite
<1>6. QED  BY <1>2, <1>4, <1>5 DEF Inv

LEMMA RecountHolds ==
    ASSUME Inv, NEW t \in Task, Recount(t) PROVE Inv'
<1>1. task[t].pc # "idle" /\ Put(t, Idle) /\ UNCHANGED <<row, writes>>
  BY DEF Recount, Finish, At
<1>2. TaskTypeOK' /\ TasksAreTrue'
  BY <1>1, TruthIsPut, IdleIsTrue DEF Inv, Idle
<1>3. Mine(t) \in Form
  BY <1>1 DEF Inv, TaskTypeOK, Mine
<1>4. FormTypeOK' /\ FormsAreTrue'
  <2> DEFINE now  == form[Mine(t)].shown
             base == task[t].shown.base
             r    == [value |-> now.value, base |-> base,
                      whole |-> now.whole /\ base = now.base]
             p    == [form[Mine(t)] EXCEPT !.shown = r]
  <2>1. now \in Reading /\ True(now, row, writes) /\ base \in Nat \cup {None}
    BY <1>3 DEF Inv, FormTypeOK, FormRec, FormsAreTrue, TaskTypeOK, Handler, Reading
  <2>2. r \in Reading /\ True(r, row, writes)
    BY <2>1 DEF Reading, True
  <2>3. p \in FormRec /\ p.shown = r /\ Set(Mine(t), p)
    BY <1>3, <2>2 DEF Inv, FormTypeOK, FormRec, Recount
  <2>4. QED  BY <1>1, <1>3, <2>2, <2>3, PageIsSet DEF Inv
<1>5. RowTypeOK' /\ StampIsPast' /\ NoSilentOverwrite'
  BY DEF Inv, Recount, RowTypeOK, StampIsPast, NoSilentOverwrite
<1>6. QED  BY <1>2, <1>4, <1>5 DEF Inv

-----------------------------------------------------------------------------
LEMMA StepHolds == Inv /\ [Next]_vars => Inv'
<1>1. ASSUME Inv, NEW t \in Task, NEW f \in Form,
             Load(t, f) \/ Press(t, f) \/ JobEnded(t, f)
      PROVE  Inv'
  BY <1>1, LoadHolds, PressHolds, JobEndedHolds
<1>2. ASSUME Inv, NEW t \in Task,
             \/ Save(t) \/ Refused(t) \/ Forget(t) \/ WriteFails(t)
             \/ Reload(t) \/ Adopt(t) \/ NotAdopted(t)
             \/ ReadConfig(t) \/ ReadBaseline(t) \/ ReadFails(t)
             \/ Apply(t) \/ Recount(t)
      PROVE  Inv'
  BY <1>2, SaveHolds, RefusedHolds, ForgetHolds, WriteFailsHolds, ReloadHolds,
     AdoptHolds, NotAdoptedHolds, ReadConfigHolds, ReadBaselineHolds,
     ReadFailsHolds, ApplyHolds, RecountHolds
<1>3. ASSUME Inv, UNCHANGED vars PROVE Inv'
  BY <1>3 DEF Inv, vars, RowTypeOK, FormTypeOK, TaskTypeOK, StampIsPast,
              FormsAreTrue, TasksAreTrue, NoSilentOverwrite
<1>4. QED  BY <1>1, <1>2, <1>3 DEF Next

(* A form whose last reading was of one row never replaces settings it had *)
(* not shown, whatever its own handlers and everybody else's do between    *)
(* that reading and the write (SemanticSettingsRepository.store).          *)
THEOREM NoSaveOverwritesSilently == Spec => []NoSilentOverwrite
<1>1. Inv => NoSilentOverwrite
  BY DEF Inv
<1>2. QED  BY InitHolds, StepHolds, <1>1, PTL DEF Spec
===============================================================================
