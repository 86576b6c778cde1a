------------------------------- MODULE ImapWalk -------------------------------
(*****************************************************************************)
(* One IMAP account, whose folders change while it is imported: the walks    *)
(* over all of them (mailarc_imap, source/source.py and mapping.py), the     *)
(* fetches (client.py), and of the engine that drives them what a cursor     *)
(* goes through (mailarc_sync, engine/engine.py).                            *)
(*                                                                           *)
(* Every IMAP command is one step, and so is every write to a checkpoint; a  *)
(* command that is tried again after a lost connection is tried once here.   *)
(* A folder is the rank of its name in the order walks use; those that are   *)
(* spam or trash do not occur.  A message lies in one folder.  The server    *)
(* keeps RFC 3501: INBOX is always there, within a UIDVALIDITY a UID is      *)
(* never given twice, a folder made again has another one, and a session     *)
(* does not see a folder it has open turn into another.                      *)
(*****************************************************************************)
EXTENDS Integers, Sequences, FiniteSets, FiniteSetsExt

CONSTANTS
    Folder,       \* ranks of folder names
    Inbox,        \* the one that is always there
    Mail,
    Absent,
    ListingSize,  \* messages a listing returns at most
    MaxChanges,   \* bound: what happens to the mailbox
    MaxFaults     \* bound: runs cut short

ASSUME ImapAssumption ==
    /\ Folder \subseteq Nat \ {0} /\ Inbox \in Folder
    /\ IsFiniteSet(Mail)
    /\ Absent \notin [at : Nat, marks : [Folder -> [gen : Nat, next : Nat]]]
    /\ ListingSize \in Nat \ {0} /\ MaxChanges \in Nat /\ MaxFaults \in Nat

VARIABLES
    folder,    \* the server: each folder's presence, UIDVALIDITY and UIDNEXT
    place,     \* the server: folder and UID of each message, or Absent
    ledger,    \* rows <<folder, UIDVALIDITY, UID>> with the mail archived under them
    full,      \* checkpoint FULL: the cursor an interrupted walk goes on from
    pending,   \* checkpoint PENDING: the mark that walk began with
    incr,      \* checkpoint INCREMENTAL: where the next delta starts
    pc, mode, cursor, mark,
    todo,      \* folders whose mark is still to be read
    open,      \* the folder a page is of, what EXAMINE said of it, where to search from
    refs,      \* what the page lists and the ledger does not have
    was,       \* history: every address a message ever had
    exempt,    \* history: addresses below the mark of an account never walked
    before,    \* history: folders made in front of one a walk starts from
    changes, faults

server  == <<folder, place, was, before>>
scopes  == <<full, pending, incr>>
listing == <<open, refs>>
histVars == <<exempt, changes, faults>>
walkVars == <<server, ledger, scopes, pc, mode, cursor, mark, todo, listing, histVars>>

NoMark  == [gen |-> 0, next |-> 1]
NoMarks == [f \in Folder |-> NoMark]

(* A token of the version before, or of another provider: no mark in it. *)
Unreadable == [at |-> 0, marks |-> NoMarks]

There       == {f \in Folder : folder[f].there}
Lying       == {m \in Mail : place[m] # Absent}
LiesIn(f)   == {m \in Lying : place[m][1] = f}
Address(m)  == <<place[m][1], folder[place[m][1]].gen, place[m][2]>>
Rows        == {<<r[1], r[2], r[3]>> : r \in ledger}
Archived    == {r[4] : r \in ledger}

WalkInit ==
    /\ folder = [f \in Folder |-> [there |-> f = Inbox, gen |-> 1, next |-> 1]]
    /\ place = [m \in Mail |-> Absent] /\ was = {} /\ before = {}
    /\ ledger = {} /\ full = Absent /\ pending = Absent /\ incr \in {Absent, Unreadable}
    /\ pc = "idle" /\ mode = "full" /\ cursor = Absent /\ mark = Absent
    /\ todo = {} /\ open = Absent /\ refs = {}
    /\ exempt = {} /\ changes = 0 /\ faults = 0

-----------------------------------------------------------------------------
(* The mailbox. *)

Happens ==
    /\ changes < MaxChanges /\ changes' = changes + 1
    /\ UNCHANGED <<ledger, scopes, pc, mode, cursor, mark, todo, listing, exempt, faults>>

(* New mail, or mail moved here from another folder. *)
Put(m, f) ==
    /\ f \in There /\ m \notin LiesIn(f) /\ Happens
    /\ place' = [place EXCEPT ![m] = <<f, folder[f].next>>]
    /\ folder' = [folder EXCEPT ![f].next = @ + 1]
    /\ was' = was \cup {<<f, folder[f].gen, folder[f].next, m>>}
    /\ UNCHANGED before

(* Walks that are under way or still to come start from these names. *)
StartingPoints == {c.at : c \in {incr, pending, mark} \ {Absent}}

Make(f) ==
    /\ f \notin There /\ Happens
    /\ folder' = [folder EXCEPT ![f] = [there |-> TRUE, gen |-> @.gen + 1, next |-> 1]]
    /\ before' = IF \E s \in StartingPoints : f < s THEN before \cup {f} ELSE before
    /\ UNCHANGED <<place, was>>

Remove(f) ==
    /\ f \in There \ {Inbox} /\ Happens
    /\ folder' = [folder EXCEPT ![f].there = FALSE]
    /\ place' = [m \in Mail |-> IF m \in LiesIn(f) THEN Absent ELSE place[m]]
    /\ UNCHANGED <<was, before>>

(* A new UIDVALIDITY: the UIDs are given out anew. *)
Renumber(f) ==
    /\ f \in There /\ Happens
    /\ \E uid \in [LiesIn(f) -> 1..Cardinality(LiesIn(f))] :
         /\ \A m, n \in LiesIn(f) : uid[m] = uid[n] => m = n
         /\ place' = [m \in Mail |-> IF m \in LiesIn(f) THEN <<f, uid[m]>> ELSE place[m]]
         /\ was' = was \cup {<<f, folder[f].gen + 1, uid[m], m>> : m \in LiesIn(f)}
    /\ folder' = [folder EXCEPT ![f].gen = @ + 1, ![f].next = Cardinality(LiesIn(f)) + 1]
    /\ UNCHANGED before

Change ==
    \E f \in Folder : Make(f) \/ Remove(f) \/ Renumber(f) \/ \E m \in Mail : Put(m, f)

-----------------------------------------------------------------------------
(* A run, up to its first listing. *)

Ended ==
    /\ pc' = "idle" /\ mode' = "full" /\ cursor' = Absent /\ mark' = Absent
    /\ todo' = {} /\ open' = Absent /\ refs' = {}

(* _resume, _starting_mark, and the LIST a watermark begins with. *)
Start(m) ==
    LET c == IF m = "full" THEN full ELSE incr
    IN  /\ pc = "idle" /\ mode' = m /\ cursor' = c
        /\ IF m = "full" /\ c # Absent /\ pending # Absent
           THEN mark' = pending /\ todo' = {} /\ pc' = "list"
           ELSE mark' = [at |-> Min(There), marks |-> NoMarks] /\ todo' = There
                /\ pc' = "watermark"
    /\ UNCHANGED <<server, ledger, scopes, listing, histVars>>

(* watermark: UIDVALIDITY and UIDNEXT of one folder after the other. *)
ReadMark ==
    /\ pc = "watermark"
    /\ LET f == Min(todo)
       IN  /\ f \in There
           /\ mark' = [mark EXCEPT !.marks[f] = [gen |-> folder[f].gen, next |-> folder[f].next]]
           /\ todo' = todo \ {f}
    /\ pc' = IF todo' # {} THEN "watermark"
             ELSE IF cursor # Absent THEN "list"
             ELSE IF mode = "full" THEN "park" ELSE "bootstrap"
    /\ UNCHANGED <<server, ledger, scopes, mode, cursor, listing, histVars>>

(* What a delta that starts from this mark will not list. *)
Behind(c) ==
    {m \in Lying : LET left == c.marks[place[m][1]]
                   IN  left.gen = Address(m)[2] /\ place[m][2] < left.next}

(* A delta without a starting point is given one and lists nothing. *)
Bootstrap ==
    /\ pc = "bootstrap"
    /\ incr' = mark
    /\ exempt' = {Address(m) : m \in Behind(mark)}
    /\ Ended
    /\ UNCHANGED <<server, ledger, full, pending, changes, faults>>

RememberMark ==
    /\ pc = "park"
    /\ pending' = mark
    /\ pc' = "list"
    /\ UNCHANGED <<server, ledger, full, incr, mode, cursor, mark, todo, listing, histVars>>

-----------------------------------------------------------------------------
(* The walk. *)

(* _walk_from: a folder that is gone is passed on to the one behind it. *)
AtOrBehind == {f \in There : cursor = Absent \/ f >= cursor.at}
Marks      == IF cursor = Absent THEN NoMarks ELSE cursor.marks

KnownByName(f) == Marks[f].gen # 0    \* mutant: any mark of that name will do

(* A mark counts only under the UIDVALIDITY it was taken under. *)
Known(f) == Marks[f].gen = folder[f].gen

ExpiredEither == cursor # Absent /\ ~Known(open.folder)    \* mutant: a full walk too

(* _resume_at: only a delta has nowhere to start without a mark. *)
Expired == mode = "incremental" /\ ~Known(open.folder)

(* LIST: the folder to go on with, and those a walk moves on to. *)
ListFolders ==
    /\ pc = "list" /\ AtOrBehind # {}
    /\ LET f == Min(AtOrBehind)
       IN  open' = [folder |-> f, after |-> {g \in There : g > f},
                    gen |-> 0, next |-> 1, first |-> 1]
    /\ pc' = "examine"
    /\ UNCHANGED <<server, ledger, scopes, mode, cursor, mark, todo, refs, histVars>>

(* No folder is left: an empty page without a next cursor. *)
NothingLeft ==
    /\ pc = "list" /\ AtOrBehind = {}
    /\ cursor' = Absent /\ pc' = "turn"
    /\ UNCHANGED <<server, ledger, scopes, mode, mark, todo, listing, histVars>>

(* EXAMINE. *)
Examine ==
    /\ pc = "examine" /\ open.folder \in There /\ ~Expired
    /\ LET f == open.folder
       IN  open' = [open EXCEPT !.gen = folder[f].gen, !.next = folder[f].next,
                                !.first = IF Known(f) THEN Marks[f].next ELSE 1]
    /\ pc' = "search"
    /\ UNCHANGED <<server, ledger, scopes, mode, cursor, mark, todo, refs, histVars>>

(* MailCursorExpired: a delta becomes a full walk, with the mark it had read. *)
FallBack ==
    /\ pc = "examine" /\ open.folder \in There /\ Expired
    /\ IF mode = "incremental"
       THEN /\ mode' = "full" /\ cursor' = Absent /\ full' = Absent
            /\ pc' = "park" /\ UNCHANGED <<mark, todo, refs>>
            /\ open' = Absent
       ELSE Ended /\ UNCHANGED full
    /\ UNCHANGED <<server, ledger, pending, incr, histVars>>

StillThatOne == open.folder \in There /\ folder[open.folder].gen = open.gen

(* UID SEARCH, cut to a page; a folder that is done is left at the UIDNEXT   *)
(* it had when it was opened.                                               *)
Search ==
    /\ pc = "search" /\ StillThatOne
    /\ LET f     == open.folder
           uids  == {u \in {place[m][2] : m \in LiesIn(f)} : u >= open.first}
           taken == {u \in uids : Cardinality({v \in uids : v < u}) < ListingSize}
           left  == [gen |-> open.gen,
                     next |-> IF taken = uids THEN open.next ELSE Max(taken) + 1]
       IN  /\ refs' = {<<f, open.gen, u>> : u \in taken} \ Rows
           /\ cursor' = IF taken = uids /\ open.after = {} THEN Absent
                        ELSE [at |-> IF taken = uids THEN Min(open.after) ELSE f,
                              marks |-> [Marks EXCEPT ![f] = left]]
    /\ open' = Absent
    /\ pc' = IF refs' = {} THEN "turn" ELSE "fetch"
    /\ UNCHANGED <<server, ledger, scopes, mode, mark, todo, histVars>>

(* MailPermanentError: the folder has gone, or is another one, since it was  *)
(* named; the message has gone since it was listed.  It ends the run.       *)
Refused ==
    /\ \/ pc = "watermark" /\ Min(todo) \notin There
       \/ pc = "examine" /\ open.folder \notin There
       \/ pc = "search" /\ ~StillThatOne
       \/ refs \ {Address(m) : m \in Lying} # {}
    /\ Ended
    /\ UNCHANGED <<server, ledger, scopes, histVars>>

FetchByUid(m) ==    \* mutant: the UIDVALIDITY is not looked at
    /\ \E r \in refs :
         /\ r[1] = place[m][1] /\ r[3] = place[m][2]
         /\ ledger' = ledger \cup {<<r[1], r[2], r[3], m>>}
         /\ refs' = refs \ {r}
    /\ pc' = IF refs' = {} THEN "turn" ELSE "fetch"
    /\ UNCHANGED <<server, scopes, mode, cursor, mark, todo, open, histVars>>

(* UID FETCH under the UIDVALIDITY it was listed under; archived, it has its *)
(* row in the ledger.                                                       *)
Fetch(m) ==
    /\ Address(m) \in refs
    /\ ledger' = ledger \cup {Address(m) \o <<m>>}
    /\ refs' = refs \ {Address(m)}
    /\ pc' = IF refs' = {} THEN "turn" ELSE "fetch"
    /\ UNCHANGED <<server, scopes, mode, cursor, mark, todo, open, histVars>>

(* A full walk checkpoints every so many messages and at its end. *)
Turn ==
    /\ pc = "turn"
    /\ \/ mode = "full" /\ full' = cursor
       \/ (mode = "incremental" \/ cursor # Absent) /\ UNCHANGED full
    /\ pc' = IF cursor = Absent THEN "store" ELSE "list"
    /\ UNCHANGED <<server, ledger, pending, incr, mode, cursor, mark, todo, listing, histVars>>

(* The mark read when the walk began is where the next delta starts. *)
StoreWatermark ==
    /\ pc = "store"
    /\ incr' = mark
    /\ exempt' = IF mode = "full" THEN {} ELSE exempt
    /\ IF mode = "full"
       THEN pc' = "unpark" /\ UNCHANGED <<mode, cursor, mark, todo, listing>>
       ELSE Ended
    /\ UNCHANGED <<server, ledger, full, pending, changes, faults>>

Unpark ==
    /\ pc = "unpark"
    /\ pending' = Absent
    /\ Ended
    /\ UNCHANGED <<server, ledger, full, incr, histVars>>

(* Cancelled, stopped, or the connection is lost. *)
CutShort ==
    /\ pc # "idle" /\ faults < MaxFaults
    /\ faults' = faults + 1
    /\ Ended
    /\ UNCHANGED <<server, ledger, scopes, exempt, changes>>

Step ==
    \/ ReadMark \/ Bootstrap \/ RememberMark
    \/ ListFolders \/ NothingLeft \/ Examine \/ FallBack \/ Search \/ Refused
    \/ \E m \in Lying : Fetch(m)
    \/ Turn \/ StoreWatermark \/ Unpark

WalkNext == Change \/ Step \/ CutShort \/ \E m \in {"full", "incremental"} : Start(m)

WalkSpec == WalkInit /\ [][WalkNext]_walkVars

(* The interval timer keeps queueing deltas, and a run takes its next step. *)
FairWalkSpec == WalkSpec /\ WF_walkVars(Start("incremental")) /\ WF_walkVars(Step)

-----------------------------------------------------------------------------
(* What the delta's starting point leaves behind is archived: mail below the *)
(* mark of its folder that still lies where it lay, however it was moved,    *)
(* renumbered or joined by new folders while walks ran, broke off and were   *)
(* resumed.  (The exception: folders made in front of a starting point.)     *)
LeftBehind == {m \in Behind(incr) : m \notin Archived /\ Address(m) \notin exempt}

BehindIsArchived == incr # Absent => \A m \in LeftBehind : place[m][1] \in before

(* No message is archived under the id of another one, and so none is taken  *)
(* for one that is archived already.                                        *)
FiledUnderItsOwn == ledger \subseteq was

(* Mail that stays in an armed account comes in, and no change of the folders *)
(* or broken-off walk leaves a run that is refused for ever.                 *)
MailComesIn ==
    \A m \in Mail :
        incr # Absent /\ m \in Lying /\ Address(m) \notin exempt
            ~> \/ m \in Archived \/ m \notin Lying
               \/ place[m][1] \in before \/ Address(m) \in exempt

(* source/source.py:323 and mapping.py:103: a folder made while a walk is    *)
(* under way is harmless.                                                   *)
NewFoldersAreHarmless == incr # Absent => LeftBehind = {}
=============================================================================
