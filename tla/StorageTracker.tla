--------------------------- MODULE StorageTracker ---------------------------
(***************************************************************************)
(* rewards/tracker.go and rewards/challenge.go on one node: the tracker    *)
(* reads the announcements of other peers into the contributors of the     *)
(* EpochManager and has the ChallengeManager ask those peers for what they *)
(* announced.  The challenged peer runs the same code: its handleStream is *)
(* the action Answer.                                                      *)
(***************************************************************************)
EXTENDS Integers, Sequences, FiniteSets

CONSTANTS Peer,      \* other peers
          Root,      \* contents this node holds
          Loaded,    \* contents whose bytes were read from a file
          Account,   \* reward addresses
          MaxIssued, \* bound: challenges
          MaxRounds, \* bound: runs of updateStats
          None

VARIABLES announced,    \* <<peer, root>> in ProviderRegistry.All
          holds,        \* <<peer, root>> that the peer still has
          addresses,    \* StorageTracker.addresses
          contributors, \* EpochManager.contributors
          snapshot,     \* what updateStats has still to apply
          challenges,   \* challenges in the order they were issued
          reporting,    \* results a callback has still to record
          rounds

vars == <<announced, holds, addresses, contributors, snapshot, challenges, reporting,
          rounds>>

Init ==
  /\ announced = {}
  /\ holds = {}
  /\ addresses = [p \in Peer |-> None]
  /\ contributors = [p \in Peer |-> None]
  /\ snapshot = [p \in Peer |-> None]
  /\ challenges = <<>>
  /\ reporting = <<>>
  /\ rounds = 0

-----------------------------------------------------------------------------
(* The other peers, and the registry: an announcement outlives the content *)
(* it is about and expires by itself.                                      *)
PeerAnnounces(p, r) ==
  /\ announced' = announced \cup {<<p, r>>}
  /\ holds' = holds \cup {<<p, r>>}
  /\ UNCHANGED <<addresses, contributors, snapshot, challenges, reporting, rounds>>

PeerLoses(p, r) ==
  /\ <<p, r>> \in holds
  /\ holds' = holds \ {<<p, r>>}
  /\ UNCHANGED <<announced, addresses, contributors, snapshot, challenges, reporting,
                 rounds>>

AnnouncementExpires(p, r) ==
  /\ <<p, r>> \in announced
  /\ announced' = announced \ {<<p, r>>}
  /\ UNCHANGED <<holds, addresses, contributors, snapshot, challenges, reporting, rounds>>

RegisterAddress(p, a) ==
  /\ addresses' = [addresses EXCEPT ![p] = a]
  /\ UNCHANGED <<announced, holds, contributors, snapshot, challenges, reporting, rounds>>

-----------------------------------------------------------------------------
(* updateStats: addresses and announcements are read, then the peers that  *)
(* have both are applied one at a time.  A peer without announcements is   *)
(* left as it was.                                                         *)
BeginUpdateStats ==
  /\ rounds < MaxRounds
  /\ snapshot = [p \in Peer |-> None]
  /\ snapshot' = [p \in Peer |->
                    LET chunks == {a \in announced : a[1] = p}
                    IN  IF chunks # {} /\ addresses[p] # None
                        THEN [address |-> addresses[p], chunks |-> Cardinality(chunks)]
                        ELSE None]
  /\ rounds' = rounds + 1
  /\ UNCHANGED <<announced, holds, addresses, contributors, challenges, reporting>>

NewContributor == [address |-> None, chunks |-> 0, passed |-> 0, failed |-> 0]

UpdateContributor(p) ==
  /\ snapshot[p] # None
  /\ contributors' =
       [contributors EXCEPT ![p] =
          [(IF @ = None THEN NewContributor ELSE @)
             EXCEPT !.address = snapshot[p].address, !.chunks = snapshot[p].chunks]]
  /\ snapshot' = [snapshot EXCEPT ![p] = None]
  /\ UNCHANGED <<announced, holds, addresses, challenges, reporting, rounds>>

-----------------------------------------------------------------------------
(* issueRandomChallenges and IssueChallenge up to the read of the answer:  *)
(* one at a time from the loop, and from whoever else calls it.  An error  *)
(* before the request is written leaves no record.                         *)
IssueChallenge(p, r) ==
  /\ Len(challenges) < MaxIssued
  /\ <<p, r>> \in announced
  /\ challenges' = Append(challenges, [of |-> p, root |-> r, state |-> "pending",
                                       answer |-> None, held |-> FALSE, raced |-> FALSE])
  /\ UNCHANGED <<announced, holds, addresses, contributors, snapshot, reporting, rounds>>

(* Another challenge of the same bytes is being answered.  Bytes read from *)
(* a file have room behind them, and append puts the nonces of both there. *)
Overlaps(c) ==
  /\ challenges[c].root \in Loaded
  /\ \E d \in DOMAIN challenges \ {c} :
       /\ challenges[d].state = "pending"
       /\ challenges[d].of = challenges[c].of /\ challenges[d].root = challenges[c].root

(* Mutant: the hash of the bytes without the nonce.                        *)
HashWithoutNonce(held, raced) == "wrong"

(* The hash of bytes and nonce, or of bytes and another's nonce, or zero.  *)
Hashed(held, raced) == IF held /\ ~raced THEN "right" ELSE "wrong"

Answer(c, raced) ==
  LET held == <<challenges[c].of, challenges[c].root>> \in holds
  IN  /\ challenges[c].state = "pending"
      /\ raced => held /\ Overlaps(c)
      /\ challenges' = [challenges EXCEPT ![c] =
                          [@ EXCEPT !.state = "answered", !.held = held, !.raced = raced,
                                    !.answer = Hashed(held, raced)]]
      /\ UNCHANGED <<announced, holds, addresses, contributors, snapshot, reporting, rounds>>

(* The answer is read: the record leaves pendingOut, and the callback is   *)
(* called after the lock is given up.                                      *)
ReadResponse(c) ==
  /\ challenges[c].state = "answered"
  /\ challenges' = [challenges EXCEPT ![c].state =
                      IF challenges[c].answer = "right" THEN "passed" ELSE "failed"]
  /\ reporting' = Append(reporting, [of |-> challenges[c].of,
                                     passed |-> challenges[c].answer = "right"])
  /\ UNCHANGED <<announced, holds, addresses, contributors, snapshot, rounds>>

(* No answer, a wrong type or another's ID: markFailed starts a goroutine  *)
(* for the callback.                                                       *)
MarkFailed(c) ==
  /\ challenges[c].state \in {"pending", "answered"}
  /\ challenges' = [challenges EXCEPT ![c].state = "broken"]
  /\ reporting' = Append(reporting, [of |-> challenges[c].of, passed |-> FALSE])
  /\ UNCHANGED <<announced, holds, addresses, contributors, snapshot, rounds>>

(* RecordChallengeResult, in any order; a peer that is not a contributor   *)
(* yet is not counted.                                                     *)
RecordChallengeResult(i) ==
  LET p == reporting[i].of
  IN  /\ contributors' =
           IF contributors[p] = None THEN contributors
           ELSE IF reporting[i].passed THEN [contributors EXCEPT ![p].passed = @ + 1]
                ELSE [contributors EXCEPT ![p].failed = @ + 1]
      /\ reporting' = [j \in 1 .. Len(reporting) - 1 |->
                         IF j < i THEN reporting[j] ELSE reporting[j + 1]]
      /\ UNCHANGED <<announced, holds, addresses, snapshot, challenges, rounds>>

(* GetCompletedChallenges hands the settled records out and forgets them.  *)
Settled(c) == challenges[c].state \in {"passed", "failed", "broken"}

Next ==
  \/ BeginUpdateStats
  \/ \E p \in Peer : UpdateContributor(p)
  \/ \E p \in Peer, a \in Account : RegisterAddress(p, a)
  \/ \E p \in Peer, r \in Root : PeerAnnounces(p, r) \/ PeerLoses(p, r)
                                   \/ AnnouncementExpires(p, r) \/ IssueChallenge(p, r)
  \/ \E c \in DOMAIN challenges : ReadResponse(c) \/ MarkFailed(c)
                                    \/ \E raced \in BOOLEAN : Answer(c, raced)
  \/ \E i \in DOMAIN reporting : RecordChallengeResult(i)

Spec == Init /\ [][Next]_vars

-----------------------------------------------------------------------------
(* A peer that answered from the content it was challenged for is failed   *)
(* by the answer only when two challenges of the same file met at it; and  *)
(* no contributor has more results than challenges were settled for it.    *)
HolderIsNotFailed ==
  /\ \A c \in DOMAIN challenges :
       challenges[c].state = "failed" => ~challenges[c].held \/ challenges[c].raced
  /\ \A p \in Peer : contributors[p] # None =>
       /\ contributors[p].passed
            <= Cardinality({c \in DOMAIN challenges :
                              challenges[c].of = p /\ challenges[c].state = "passed"})
       /\ contributors[p].passed + contributors[p].failed
            + Cardinality({i \in DOMAIN reporting : reporting[i].of = p})
            <= Cardinality({c \in DOMAIN challenges : challenges[c].of = p /\ Settled(c)})
=============================================================================
