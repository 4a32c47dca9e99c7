----------------------------- MODULE UidSearch -----------------------------
(***************************************************************************)
(* _recent_uids_after: the newest unseen UIDs, looked for in blocks from   *)
(* UIDNEXT downwards, so that a mailbox with a long history costs a        *)
(* bounded number of UID SEARCH commands.  MailArchive takes its answer in *)
(* one step; here each command is a step, and other clients of the mailbox *)
(* expunge messages in between.                                            *)
(***************************************************************************)
EXTENDS Naturals, FiniteSets

CONSTANTS
  MaxUid,      \* bound: the largest UIDNEXT is MaxUid + 1
  Limit,       \* message_limit, at least 1
  MinBlock,    \* the smallest block of UIDs that is asked for: 100
  MaxBlocks    \* MAX_UID_SEARCH_BLOCKS

ASSUME MaxUidAssumption == MaxUid \in Nat
ASSUME SizesAssumption ==
  Limit \in Nat \ {0} /\ MinBlock \in Nat \ {0} /\ MaxBlocks \in Nat \ {0}

VARIABLES
  inbox,    \* UIDs on the server
  lower,    \* the UID after the cursor
  top,      \* UIDNEXT - 1, as SELECT reported it
  upper,    \* end of the next block
  found,    \* the set uids
  blocks,   \* commands sent
  pc

vars == <<inbox, lower, top, upper, found, blocks, pc>>

Init ==
  /\ inbox \in SUBSET (1 .. MaxUid)
  /\ lower \in 1 .. (MaxUid + 1)
  /\ top \in 0 .. MaxUid /\ \A u \in inbox : u <= top
  /\ upper = top
  /\ found = {} /\ blocks = 0
  /\ pc = IF upper < lower THEN "done" ELSE "search"

BlockSize == IF Limit > MinBlock THEN Limit ELSE MinBlock

\* Mutant: the cursor does not bound the last block.
StartUnclipped == upper + 1 - BlockSize

\* max(lower, upper - block_size + 1)
Start == IF upper + 1 > BlockSize + lower THEN upper + 1 - BlockSize ELSE lower

Below(start) == start - 1

\* Mutant: a block is counted instead of what it held.
EnoughAsked(S) == TRUE

Enough(S) == Cardinality(S) >= Limit

\* One UID SEARCH; the loop runs out of blocks before it is done: MailboxError.
Search ==
  /\ pc = "search"
  /\ found' = found \cup {u \in inbox : Start <= u /\ u <= upper}
  /\ upper' = Below(Start)
  /\ blocks' = blocks + 1
  /\ pc' = IF Enough(found') \/ upper' < lower THEN "done"
           ELSE IF blocks' = MaxBlocks THEN "failed"
           ELSE "search"
  /\ UNCHANGED <<inbox, lower, top>>

\* Another client removes a message.  What arrives gets a UID above top, where
\* no command looks.
Expunge(u) ==
  /\ u \in inbox
  /\ inbox' = inbox \ {u}
  /\ UNCHANGED <<lower, top, upper, found, blocks, pc>>

\* sorted(uids)[-limit:], what the function returns when pc is done.
Result == {u \in found : Cardinality({v \in found : v > u}) < Limit}

Next == Search \/ \E u \in 1 .. MaxUid : Expunge(u)

Spec == Init /\ [][Next]_vars

-----------------------------------------------------------------------------
(* Properties                                                              *)

\* Every variable holds a value of its type.
TypeOK ==
  /\ inbox \subseteq 1 .. MaxUid
  /\ lower \in 1 .. (MaxUid + 1) /\ top \in 0 .. MaxUid /\ upper \in 0 .. MaxUid
  /\ found \subseteq 1 .. MaxUid
  /\ blocks \in Nat
  /\ pc \in {"search", "done", "failed"}

\* "Synchronizes all unseen IMAP UIDs", down to the retention limit: when the
\* loop returns, an unseen message that is still there is in the answer, or at
\* least Limit newer ones were found.  The cursor moves past it, so that a
\* message left out here is never archived.
NothingSkipped ==
  pc = "done" =>
    \A u \in inbox :
      lower <= u /\ u <= top =>
        u \in Result \/ Cardinality({v \in found : v > u}) >= Limit

\* The answer has no seen UID in it: a message is not fetched again, nor the
\* cursor moved back, however the last block overlaps the cursor.
NothingSeen == \A u \in found : lower <= u /\ u <= top

=============================================================================
