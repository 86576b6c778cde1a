------------------------------ MODULE Credentials ------------------------------
(***************************************************************************)
(* The secrets that open one mailbox (mail_credentials), written by the    *)
(* accounts page (mailarc_ui/accounts/state.py), by a provider's consent   *)
(* step started from it, and by the worker when the provider rotated a     *)
(* token during a run (app/worker.py).                                     *)
(*                                                                         *)
(* A secret is known by the deposit it goes back to: the n-th time a       *)
(* person typed one or granted one.  A rotation keeps n and counts turn.   *)
(* box is the mailbox it opens, whatever address the account row names.    *)
(***************************************************************************)
EXTENDS FiniteSets, Integers

CONSTANTS
    Page,          \* open accounts pages: each runs one handler at a time
    Worker,
    Mailbox,       \* mailboxes, and the addresses that name them
    Nothing,
    MaxDeposits,   \* bound: secrets typed or granted
    MaxRuns,       \* bound: import runs
    MaxTurns       \* bound: rotations of one grant

ASSUME CredentialAssumption ==
    {MaxDeposits, MaxRuns, MaxTurns} \subseteq Nat /\ Nothing \notin Mailbox

VARIABLES
    provider,    \* what the account's provider registered: fields, consent step
    address,     \* the address the account row names
    account,     \* "none", or the row's status
    cred,        \* kind -> its row: the secret and the row's identity, or Nothing
    page,        \* per page: where its consent stands
    run,         \* per worker: the run it is in
    deposits, runs,
    latest,      \* history: the kind and number of what a person last put in
    named,       \* history: the address a mailbox was last found to be the row's by
    window,      \* history: a person wrote between a worker's look and its write
    torn         \* history: two consents overlapped, or one was cut short

counts == <<deposits, runs>>
hist   == <<latest, named, window, torn>>
credentialVars == <<provider, address, account, cred, page, run, counts, hist>>

(* Gmail asks for nothing and has a consent step, IMAP asks for fields,    *)
(* Microsoft 365 does both.                                                *)
Provider == [fields : BOOLEAN, consent : BOOLEAN]
Kind     == {"oauth", "password"}

NoConsent == [pc |-> "idle", secret |-> Nothing]
NoRun     == [pc |-> "idle", opened |-> Nothing, kind |-> Nothing, current |-> Nothing,
              row |-> Nothing, denied |-> FALSE]

Secret(box) == [n |-> deposits + 1, turn |-> 0, box |-> box]

(* _secret_of, _secret_for: CredentialKind in its order, the first row.    *)
Opens ==
    IF cred["oauth"] # Nothing THEN cred["oauth"]
    ELSE cred["password"]

OpensKind == IF cred["oauth"] # Nothing THEN "oauth" ELSE "password"

(* The row _create leaves: what was typed, or nothing where nothing was    *)
(* asked for.                                                              *)
CredentialInit ==
    /\ provider \in {p \in Provider : p.fields \/ p.consent}
    /\ account = "idle" /\ address \in Mailbox /\ named = Nothing
    /\ deposits = IF provider.fields THEN 1 ELSE 0
    /\ \E box \in Mailbox :
          cred = [k \in Kind |->
             IF k = "password" /\ provider.fields
             THEN [secret |-> [n |-> 1, turn |-> 0, box |-> box], row |-> 1]
             ELSE Nothing]
    /\ page = [p \in Page |-> NoConsent] /\ run = [w \in Worker |-> NoRun]
    /\ runs = 0
    /\ latest = IF provider.fields THEN [kind |-> "password", n |-> 1] ELSE Nothing
    /\ window = FALSE /\ torn = FALSE

Consenting(p) == page[p].pc # "idle"
Looking       == \E w \in Worker : run[w].pc = "write"

(* A person's deposit of a kind, noted for the properties.                 *)
Deposited(k) ==
    /\ deposits' = deposits + 1
    /\ latest' = [kind |-> k, n |-> deposits + 1]
    /\ window' = (window \/ Looking)

-----------------------------------------------------------------------------
(* The accounts page.                                                      *)

(* store_secret: the row of that kind is updated in place, or created.     *)
Stored(c, k, secret) ==
    [c EXCEPT ![k] =
        [secret |-> secret, row |-> IF c[k] = Nothing THEN secret.n ELSE c[k].row]]

(* save_account: the address of the form in any case, for which nobody is  *)
(* asked, and the secret where its boxes were retyped.                     *)
SaveAccount(p) ==
    /\ page[p].pc = "idle" /\ account # "none"
    /\ address' \in Mailbox
    /\ \/ /\ provider.fields /\ deposits < MaxDeposits
          /\ \E box \in Mailbox : cred' = Stored(cred, "password", Secret(box))
          /\ Deposited("password")
       \/ UNCHANGED <<cred, deposits, latest, window>>
    /\ UNCHANGED <<provider, account, page, run, runs, named, torn>>

(* delete_account: the secrets and the row in one transaction.             *)
Delete(p) ==
    /\ page[p].pc = "idle" /\ account # "none"
    /\ account' = "none" /\ cred' = [k \in Kind |-> Nothing]
    /\ UNCHANGED <<provider, address, page, run, counts, hist>>

To(p, pc, secret) == page' = [page EXCEPT ![p] = [pc |-> pc, secret |-> secret]]

(* start_consent, _grant's first session: the runner is left waiting for a *)
(* person, outside any transaction.                                        *)
StartConsent(p) ==
    /\ page[p].pc = "idle" /\ account # "none" /\ deposits < MaxDeposits
    /\ To(p, IF provider.consent THEN "grant" ELSE "verify", Nothing)
    /\ torn' = (torn \/ \E q \in Page \ {p} : Consenting(q))
    /\ UNCHANGED <<provider, address, account, cred, run, counts, latest, named, window>>

(* _grant's second session: every stored secret goes and the granted one   *)
(* is kept, whichever mailbox the person signed in to.  A foreign key      *)
(* refuses it once the account is gone.                                    *)
Grant(p) ==
    /\ page[p].pc = "grant" /\ account # "none" /\ deposits < MaxDeposits
    /\ \E box \in Mailbox :
          cred' = Stored([k \in Kind |-> Nothing], "oauth", Secret(box))
    /\ Deposited("oauth")
    /\ To(p, "verify", Nothing)
    /\ UNCHANGED <<provider, address, account, run, runs, named, torn>>

(* _verify: the mailbox says whose it is.                                  *)
Verify(p) ==
    /\ page[p].pc = "verify" /\ account # "none" /\ Opens # Nothing
    /\ To(p, "require", Opens.secret)
    /\ UNCHANGED <<provider, address, account, cred, run, counts, hist>>

\* mutant
RequireAnybody(p) ==
    /\ page[p].pc = "require" /\ account # "none"
    /\ cred' = cred /\ named' = address
    /\ To(p, "connected", Nothing)
    /\ UNCHANGED <<provider, address, account, run, counts, latest, window, torn>>

(* _require_same_mailbox, by the address the row names by now: another     *)
(* mailbox's secrets go, all of them.                                      *)
Require(p) ==
    /\ page[p].pc = "require" /\ account # "none"
    /\ IF page[p].secret.box = address
       THEN cred' = cred /\ named' = address /\ To(p, "connected", Nothing)
       ELSE cred' = [k \in Kind |-> Nothing] /\ named' = named /\ To(p, "failed", Nothing)
    /\ UNCHANGED <<provider, address, account, run, counts, latest, window, torn>>

(* The consent is refused, the mailbox cannot be asked, or a row is gone.  *)
ConsentFails(p) ==
    /\ page[p].pc \in {"grant", "verify", "require"}
    /\ To(p, "failed", Nothing)
    /\ UNCHANGED <<provider, address, account, cred, run, counts, hist>>

(* _record, the last step of _connect, of whichever outcome.               *)
Record(p) ==
    /\ page[p].pc \in {"connected", "failed"}
    /\ account' = IF account = "none" THEN "none"
                  ELSE IF page[p].pc = "connected" THEN "idle" ELSE "auth_error"
    /\ page' = [page EXCEPT ![p] = NoConsent]
    /\ UNCHANGED <<provider, address, cred, run, counts, hist>>

(* The web process goes away in the middle of a consent.                   *)
PageDies(p) ==
    /\ Consenting(p)
    /\ page' = [page EXCEPT ![p] = NoConsent] /\ torn' = TRUE
    /\ UNCHANGED <<provider, address, account, cred, run, counts, latest, named, window>>

-----------------------------------------------------------------------------
(* One import run, as far as the secret goes.                              *)

(* _open_mailbox; a run that finds no secret is an auth error at once.     *)
Open(w) ==
    /\ run[w].pc = "idle" /\ runs < MaxRuns /\ account # "none"
    /\ runs' = runs + 1
    /\ IF Opens = Nothing
       THEN run' = [run EXCEPT ![w].pc = "mark"]
       ELSE run' = [run EXCEPT ![w] = [NoRun EXCEPT
                !.pc = "work", !.kind = OpensKind,
                !.opened = Opens.secret, !.current = Opens.secret]]
    /\ UNCHANGED <<provider, address, account, cred, page, deposits, hist>>

(* What the mailbox hands back is no longer what it was opened with: the   *)
(* provider reissued the token of a grant, or renders typed fields anew.   *)
Rotate(w) ==
    /\ run[w].pc = "work" /\ run[w].current.turn < MaxTurns
    /\ run' = [run EXCEPT ![w].current.turn = @ + 1]
    /\ UNCHANGED <<provider, address, account, cred, page, counts, hist>>

(* The walk ends, refused by the mailbox or not.                           *)
Walked(w) ==
    /\ run[w].pc = "work"
    /\ \E denied \in BOOLEAN :
          run' = [run EXCEPT ![w].pc = "look", ![w].denied = denied]
    /\ UNCHANGED <<provider, address, account, cred, page, counts, hist>>

Over(w) == IF run[w].denied THEN "mark" ELSE "idle"

\* mutant
LookAtNothing(w) ==
    /\ run[w].pc = "look"
    /\ LET k == run[w].kind IN
       IF run[w].current # run[w].opened /\ cred[k] # Nothing
       THEN run' = [run EXCEPT ![w].pc = "write", ![w].row = cred[k].row]
       ELSE run' = [run EXCEPT ![w].pc = Over(w)]
    /\ UNCHANGED <<provider, address, account, cred, page, counts, hist>>

(* _keep_refreshed_secret reads the row and compares it with what the run  *)
(* was opened with.                                                        *)
Look(w) ==
    /\ run[w].pc = "look"
    /\ LET k == run[w].kind IN
       IF /\ run[w].current # run[w].opened
          /\ cred[k] # Nothing /\ cred[k].secret = run[w].opened
       THEN run' = [run EXCEPT ![w].pc = "write", ![w].row = cred[k].row]
       ELSE run' = [run EXCEPT ![w].pc = Over(w)]
    /\ UNCHANGED <<provider, address, account, cred, page, counts, hist>>

(* Its UPDATE, by the row's id, in a statement of its own.  A row that was *)
(* deleted is missed; one created since may have got its id.               *)
WriteBack(w) ==
    /\ run[w].pc = "write"
    /\ LET k == run[w].kind IN
       \/ /\ cred[k] # Nothing
          /\ cred' = [cred EXCEPT ![k].secret = run[w].current]
       \/ /\ ~(cred[k] # Nothing /\ cred[k].row = run[w].row)
          /\ cred' = cred
    /\ run' = [run EXCEPT ![w].pc = Over(w)]
    /\ UNCHANGED <<provider, address, account, page, counts, hist>>

(* _mark_auth_error, in the loop, after all of that.                       *)
MarkAuthError(w) ==
    /\ run[w].pc = "mark"
    /\ account' = IF account = "none" THEN "none" ELSE "auth_error"
    /\ run' = [run EXCEPT ![w] = NoRun]
    /\ UNCHANGED <<provider, address, cred, page, counts, hist>>

WorkerDies(w) ==
    /\ run[w].pc # "idle"
    /\ run' = [run EXCEPT ![w] = NoRun]
    /\ UNCHANGED <<provider, address, account, cred, page, counts, hist>>

CredentialNext ==
    \/ \E p \in Page :
          \/ SaveAccount(p) \/ Delete(p) \/ StartConsent(p) \/ Grant(p) \/ Verify(p)
          \/ Require(p) \/ ConsentFails(p) \/ Record(p) \/ PageDies(p)
    \/ \E w \in Worker :
          \/ Open(w) \/ Rotate(w) \/ Walked(w) \/ Look(w) \/ WriteBack(w)
          \/ MarkAuthError(w) \/ WorkerDies(w)

CredentialSpec == CredentialInit /\ [][CredentialNext]_credentialVars

-----------------------------------------------------------------------------
Settled == \A p \in Page : ~Consenting(p)

(* What a person put in last, by either hand, is still there: no run that  *)
(* was under way writes a token of an earlier grant over it, however late  *)
(* it ends (app/worker.py:478).  Only a deposit between a worker's look at *)
(* the row and its write, two statements apart, may be lost.               *)
LatestDepositStays ==
    ~window /\ latest # Nothing /\ cred[latest.kind] # Nothing =>
        cred[latest.kind].secret.n = latest.n

(* Once every consent is over, the grant of an account a consent left idle *)
(* opens the mailbox the row named when it was compared                    *)
(* (accounts/state.py:871), whatever was granted before, whoever edits the *)
(* row and whichever runs go on meanwhile.  It is the mailbox the row      *)
(* names now unless its address was edited since: save_account asks nobody *)
(* (line 650).  Excused are consents that overlapped or died half way,     *)
(* since the grant is committed before the mailbox is asked whose it is,   *)
(* and the window above.                                                   *)
IdleOpensTheComparedMailbox ==
    ~torn /\ ~window /\ account = "idle" /\ Settled /\ cred["oauth"] # Nothing
        => cred["oauth"].secret.box = named
================================================================================
