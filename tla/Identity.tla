------------------------------ MODULE Identity ------------------------------
(***************************************************************************)
(* What the node keeps about its peers (src/identity): the contacts it     *)
(* learned from adverts with the index into them by hash, the cache of     *)
(* shared secrets, and contacts.dat.                                       *)
(*                                                                         *)
(* An advert stands for one whose signature has been verified.  Names,     *)
(* types and positions are taken whole from the advert whose timestamp is  *)
(* kept, so the timestamp stands for them; the signal strength is left     *)
(* out.                                                                    *)
(***************************************************************************)
EXTENDS Integers, Sequences, FiniteSets, FiniteSetsExt

CONSTANTS
    Keys,        \* public keys of the peers
    Self,        \* our own public key
    Strangers,   \* keys that never advertised; a login brings one along
    Degenerate,  \* keys no secret can be derived from
    Hash,        \* the first byte of each key
    Stamps,      \* timestamps of adverts
    Hops,        \* how many nodes an advert may have come through
    Walls,       \* readings of the wall clock, which is set before we start
    MaxContacts, \* MAX_CONTACTS
    MaxSecrets,  \* MAX_SECRET_CACHE
    MaxCalls,    \* bound on the calls of secretFor
    MaxUnsynced, \* bound on the flushes in a row whose rename may be undone
    Torn,        \* a file that is being written
    Absent       \* no file

ASSUME IdentityAssumption ==
    /\ Self \notin Keys /\ Degenerate \subseteq Keys \cup Strangers
    /\ DOMAIN Hash = Keys
    /\ Stamps \subseteq Nat /\ Hops \subseteq Nat /\ Walls \subseteq Nat \ {0}
    /\ MaxContacts \in Nat \ {0} /\ MaxSecrets \in Nat \ {0} /\ MaxCalls \in Nat
    /\ MaxUnsynced \in Nat

VARIABLES
    contacts,  \* contacts_
    buckets,   \* buckets_: per hash, the positions of the contacts that have it
    echoed,    \* Receiver::echoed_
    secrets,   \* secrets_
    clock,     \* clock_: counts the calls of secretFor
    file,      \* contacts.dat
    older,     \* what the power may bring back in its place: the files that were
               \* there before the renames the directory has not been synced since
    temporary, \* contacts.dat.tmp
    flushing,  \* how far flush is
    firsthand, \* peers whose latest advert reached us from their own transmitter
    handed,    \* the secrets handed out last, and where they were, newest last
    saved      \* what was in contacts_ when flush last succeeded, or was loaded since

storeVars == <<contacts, buckets, echoed, firsthand>>
secretVars == <<secrets, clock, handed>>
fileVars == <<file, older, temporary, flushing, saved>>
vars == <<storeVars, secretVars, fileVars>>

Hashes == {Hash[k] : k \in Keys}
Contact == [pk : Keys, timestamp : Nat, lastHeard : Nat, hops : Nat]
CachedSecret == [pk : Keys \cup Strangers, usedAt : Nat]

ASSUME FileAssumption == Torn # Absent /\ {Torn, Absent} \cap Seq(Contact) = {}

TypeOK ==
    /\ contacts \in Seq(Contact) /\ Len(contacts) <= MaxContacts
    /\ buckets \in [Hashes -> Seq(Nat)]
    /\ echoed \in BOOLEAN
    /\ secrets \in Seq(CachedSecret) /\ Len(secrets) <= MaxSecrets
    /\ clock \in Nat
    /\ \A f \in older \cup {file} : f \in {Torn, Absent} \/ f \in Seq(Contact)
    /\ temporary \in {Torn, Absent} \/ temporary \in Seq(Contact)
    /\ flushing \in {"no", "writing", "renamed"}

Init ==
    /\ contacts = <<>> /\ buckets = [h \in Hashes |-> <<>>] /\ echoed = FALSE
    /\ firsthand = {}
    /\ secrets = <<>> /\ clock = 0 /\ handed = <<>>
    /\ file = Absent /\ older = {} /\ temporary = Absent /\ flushing = "no"
    /\ saved = <<>>

-----------------------------------------------------------------------------
(* Contacts.                                                               *)

\* Where find finds a key, which it looks for in the bucket of its hash: the
\* empty set or one position.
Found(k) ==
    {i \in 1..Len(contacts) :
        /\ contacts[i].pk = k
        /\ \E j \in 1..Len(buckets[Hash[k]]) : buckets[Hash[k]][j] = i}

\* Whose slot a new contact gets when there is no room: the oldest advert's.
Victim ==
    LET oldest == Min({contacts[i].timestamp : i \in 1..Len(contacts)})
    IN  Min({i \in 1..Len(contacts) : contacts[i].timestamp = oldest})

\* allocateSlot.
Slot == IF Len(contacts) < MaxContacts THEN Len(contacts) + 1 ELSE Victim

\* indexContact.
IndexContact(index, k, i) == [index EXCEPT ![Hash[k]] = Append(@, i)]

\* reindex: the buckets are emptied and the contacts indexed in turn.
Reindexed(list) ==
    LET after[n \in 0..Len(list)] ==
            IF n = 0 THEN [h \in Hashes |-> <<>>]
            ELSE IndexContact(after[n - 1], list[n].pk, n)
    IN  after[Len(list)]

\* Wrong: the slot that was reused stays in the bucket it was in.
IndexNotRebuilt(k, list, evicting) == IndexContact(buckets, k, Slot)

IndexAfter(k, list, evicting) ==
    IF evicting THEN Reindexed(list) ELSE IndexContact(buckets, k, Slot)

\* Wrong: only a copy of the advert we have is stale.
StaleIfSame(i, timestamp) == timestamp = contacts[i].timestamp

Stale(i, timestamp) == timestamp <= contacts[i].timestamp

\* remember and noteHeard: the receiver calls both for every copy of an advert
\* of somebody else, wherever it comes from.
Remember(k, timestamp, wall, hops) ==
    LET heard(c)  == [c EXCEPT !.lastHeard = wall, !.hops = hops]
        fresh     == [pk |-> k, timestamp |-> timestamp, lastHeard |-> 0, hops |-> 0]
        direct    == IF hops = 0 THEN {k} ELSE {}
        evicting  == Len(contacts) >= MaxContacts
        list      == IF evicting THEN [contacts EXCEPT ![Slot] = heard(fresh)]
                     ELSE Append(contacts, heard(fresh))
    IN  \/ \E i \in Found(k) :
               /\ Stale(i, timestamp)
               /\ contacts' = [contacts EXCEPT ![i] = heard(@)]
               /\ firsthand' = IF timestamp = contacts[i].timestamp
                               THEN firsthand \cup direct ELSE firsthand
               /\ UNCHANGED buckets
        \/ \E i \in Found(k) :
               /\ ~Stale(i, timestamp)
               /\ contacts' = [contacts EXCEPT ![i] = [heard(@) EXCEPT !.timestamp = timestamp]]
               /\ firsthand' = (firsthand \ {k}) \cup direct
               /\ UNCHANGED buckets
        \/ /\ Found(k) = {}
           /\ contacts' = list
           /\ buckets' = IndexAfter(k, list, evicting)
           /\ firsthand' = direct \cup {p \in firsthand : \E i \in 1..Len(list) : list[i].pk = p}

\* Receiver::rememberIfAdvert: our own advert coming back is not a contact.
RememberIfAdvert(k, timestamp, wall, hops) ==
    /\ flushing = "no"
    /\ IF k = Self
       THEN echoed' = TRUE /\ UNCHANGED <<contacts, buckets, firsthand>>
       ELSE Remember(k, timestamp, wall, hops) /\ UNCHANGED echoed
    /\ UNCHANGED <<secretVars, fileVars>>

IsNeighbour(c) == c.lastHeard # 0 /\ c.hops = 0

-----------------------------------------------------------------------------
(* Shared secrets.                                                         *)

CachedAt(k) == {i \in 1..Len(secrets) : secrets[i].pk = k}

\* Wrong: the first slot gives way.
LeastUsedFirst == 1

LeastUsed == CHOOSE i \in 1..Len(secrets) :
                \A j \in 1..Len(secrets) : secrets[i].usedAt <= secrets[j].usedAt

\* Wrong: the cache grows.
SecretSlotUnbounded == Len(secrets) + 1

SecretSlot == IF Len(secrets) < MaxSecrets THEN Len(secrets) + 1 ELSE LeastUsed

\* The last n of a sequence.
LastOf(s, n) == IF Len(s) > n THEN SubSeq(s, Len(s) - n + 1, Len(s)) ELSE s

\* secretFor; a pointer to the slot is handed out unless the key is degenerate.
SecretFor(k) ==
    LET at == IF CachedAt(k) # {} THEN Min(CachedAt(k)) ELSE SecretSlot
        entry == [pk |-> k, usedAt |-> clock + 1]
    IN  /\ flushing = "no" /\ clock < MaxCalls
        /\ clock' = clock + 1
        /\ IF k \in Degenerate
           THEN UNCHANGED <<secrets, handed>>
           ELSE /\ secrets' = IF at > Len(secrets) THEN Append(secrets, entry)
                              ELSE [secrets EXCEPT ![at] = entry]
                /\ handed' = LastOf(Append(handed, [pk |-> k, at |-> at]), MaxSecrets)
        /\ UNCHANGED <<storeVars, fileVars>>

-----------------------------------------------------------------------------
(* contacts.dat.  flush is one call; its steps are apart because the        *)
(* program or the power may fail between any two of them.                  *)

\* writeContacts opens the temporary file and starts writing.
FlushBegin ==
    /\ flushing = "no" /\ flushing' = "writing"
    /\ temporary' = Torn
    /\ UNCHANGED <<storeVars, secretVars, file, older, saved>>

\* Everything is written and has reached the disk.
FlushWritten ==
    /\ flushing = "writing" /\ temporary = Torn
    /\ temporary' = contacts
    /\ UNCHANGED <<storeVars, secretVars, file, older, flushing, saved>>

\* Wrong: the rename does not wait for the contents.
WrittenAlready == TRUE

Written == temporary # Torn

\* The rename, which is not on the disk yet.
FlushRename ==
    /\ flushing = "writing" /\ Written
    /\ flushing' = "renamed"
    /\ file' = temporary /\ temporary' = Absent
    /\ older' = older \cup {file}
    /\ UNCHANGED <<storeVars, secretVars, saved>>

\* flush returns true, whether or not the directory could be opened and synced.
FlushSucceeds(synced) ==
    /\ flushing = "renamed" /\ flushing' = "no"
    /\ saved' = contacts
    /\ IF synced THEN older' = {} ELSE UNCHANGED older /\ Cardinality(older) <= MaxUnsynced
    /\ UNCHANGED <<storeVars, secretVars, file, temporary>>

\* A step before the rename, or the rename, fails: the temporary file is removed
\* and flush returns false.
FlushFails ==
    /\ flushing = "writing" /\ flushing' = "no"
    /\ temporary' = Absent
    /\ UNCHANGED <<storeVars, secretVars, file, older, saved>>

\* The list a start finds in contacts.dat.
ListIn(f) == IF f = Absent THEN <<>> ELSE f

\* loadOrCreate.  A torn file is refused.  A temporary file left behind is never
\* read, and truncated by the next flush.
Load ==
    /\ file' # Torn
    /\ contacts' = ListIn(file')
    /\ buckets' = Reindexed(contacts')
    /\ saved' = contacts'
    /\ firsthand' = {}
    /\ echoed' = FALSE
    /\ secrets' = <<>> /\ clock' = 0 /\ handed' = <<>>
    /\ temporary' = Absent /\ flushing' = "no"

\* The program ends at any moment and is started again.
Restart == UNCHANGED <<file, older>> /\ Load

\* The power goes, and with it any renames that are not on the disk.
PowerCut == file' \in older \cup {file} /\ older' = {} /\ Load

-----------------------------------------------------------------------------
Hear == \E k \in Keys \cup {Self}, ts \in Stamps, wall \in Walls, hops \in Hops :
            RememberIfAdvert(k, ts, wall, hops)
Flush ==
    \/ FlushBegin
    \/ FlushWritten
    \/ FlushRename
    \/ \E synced \in BOOLEAN : FlushSucceeds(synced)
    \/ FlushFails

Next ==
    \/ Hear
    \/ \E k \in Keys \cup Strangers : SecretFor(k)
    \/ Flush
    \/ Restart
    \/ PowerCut

Spec == Init /\ [][Next]_vars

-----------------------------------------------------------------------------
(* Properties.                                                             *)

\* Every contact is in the bucket of its hash, once, and the buckets point at
\* nothing else; no key has two contacts: after evictions, which reuse a slot
\* "that another bucket still points at" (Store::remember), and restarts.
IndexExact ==
    /\ \A h \in Hashes :
        /\ {buckets[h][n] : n \in 1..Len(buckets[h])}
              = {i \in 1..Len(contacts) : Hash[contacts[i].pk] = h}
        /\ \A m, n \in 1..Len(buckets[h]) : buckets[h][m] = buckets[h][n] => m = n
    /\ \A i, j \in 1..Len(contacts) : contacts[i].pk = contacts[j].pk => i = j

\* What contacts.dat holds at any moment, in the middle of a flush, after one
\* that failed and after a crash in one, is the whole of the list that the last
\* successful flush was given, or the one about to succeed: "losing power
\* mid-write must not leave a half-written contact list" (Store::flush).  A
\* program that ends and starts again loses nothing that was saved.  A power cut
\* may, because flush returns true although the directory was not synced; but
\* what it brings back is whole too.
FileWhole ==
    /\ Torn \notin older \cup {file}
    /\ ListIn(file) = IF flushing = "renamed" THEN contacts ELSE saved

\* No contact we keep is rolled back to an older advert, and no contact is lost
\* while a less recent advert is kept, other than by a restart: "otherwise
\* anyone could roll our records back by replaying a genuine old advert"
\* (identity.h, remember).
NoRollback ==
    [][\/ \A i \in 1..Len(contacts) :
              \/ \E j \in 1..Len(contacts') :
                     contacts'[j].pk = contacts[i].pk /\ contacts'[j].timestamp >= contacts[i].timestamp
              \/ /\ \A j \in 1..Len(contacts') : contacts'[j].pk # contacts[i].pk
                 /\ \A j \in 1..Len(contacts) : contacts[j].timestamp >= contacts[i].timestamp
       \/ Restart \/ PowerCut]_vars

\* The pointers handed out by the last MAX_SECRET_CACHE calls of secretFor are
\* good: each still points at the secret of its key, because the slot that gives
\* way was used longer ago ("The pointer stays valid until a later call evicts
\* the slot", identity.h).
SecretsStay ==
    \A n \in 1..Len(handed) :
        handed[n].at \in 1..Len(secrets) /\ secrets[handed[n].at].pk = handed[n].pk

\* A peer whose latest advert we had from its own transmitter is a neighbour:
\* "`get neighbors` | Who this node hears first-hand" (README.md).
FirstHandIsNeighbour ==
    \A i \in 1..Len(contacts) : contacts[i].pk \in firsthand => IsNeighbour(contacts[i])
=============================================================================
