---------------------------- MODULE LedgerChains ----------------------------
(***************************************************************************)
(* The tamper-evident tables of the ledger and the signed checkpoints that *)
(* seal them (src/internal/ledger/event_chain.go, api_requests.go,         *)
(* authorization.go, tenant.go, src/internal/integritycheckpoint).         *)
(*                                                                         *)
(* A digest is modelled by the material it is computed from, so two        *)
(* digests are equal exactly when the materials are: SHA-256 is assumed    *)
(* to have no collisions and nothing else is assumed of it.  Blank is an   *)
(* empty or NULL digest column.                                            *)
(*                                                                         *)
(* The kinds of chain differ where the code does.  "events": one chain per *)
(* transaction, the sequence number is no part of the digest, and rows     *)
(* that predate the chain columns are adopted when the ledger is opened.   *)
(* "api": numbered rows, also adopted at an open.  "decisions" (of the     *)
(* authorization guard) and "access" (events on grants): numbered rows,    *)
(* never adopted, and of "access" a checkpoint's head is never compared.   *)
(*                                                                         *)
(* Damage is what the chains are there to detect: a row changed, blanked,  *)
(* dropped, repeated or exchanged by something that is not FutureDiff and  *)
(* that recomputes no digest.                                              *)
(***************************************************************************)
EXTENDS Naturals, Sequences, FiniteSets, SequencesExt

CONSTANTS Chains,      \* the chains of this ledger, of the kinds above
          MaxRows,     \* rows a chain may reach, and rows written to it
          MaxDamage,   \* damages in a behaviour
          MaxReceipts, \* operator receipts in a behaviour
          MaxSeals,    \* checkpoints begun in a behaviour
          None         \* no checkpoint, no backup, no tool at work

VARIABLES
    rows,       \* the tables: chain -> rows in the order of their sequence
    open,       \* the daemon has the ledger open
    tool,       \* the checkpoint tool: None, or its step and what it has read
    backup,     \* the ledger backup beside the checkpoint, or None
    checkpoint, \* the published checkpoint, or None
    receipts,   \* the length of the operator receipt chain
    links,      \* history: the rows FutureDiff left, each after which digest
    count       \* bounds: rows written, damages done, checkpoints begun

vars == <<rows, open, tool, backup, checkpoint, receipts, links, count>>

-----------------------------------------------------------------------------
(* Digests and rows. *)

Blank == <<>>

Numbered(c) == c # "events"
Adopts(c) == c \in {"events", "api"}

\* computeEventHash, apiAccessDigest, authorizationDigest, accessDigest: what
\* the digest of a row covers.
Digest(c, seq, body, previous) ==
    <<c, IF Numbered(c) THEN seq ELSE 0, body, previous>>

\* The newest digest of a chain as it is stored, Blank for an empty chain.
Newest(c, rs) == IF rs = <<>> THEN Blank ELSE Last(rs).digest

\* The row an append inserts: numbered one past the largest sequence and
\* chained to the newest row's digest.
NewRow(c, rs, body) ==
    LET seq == IF rs = <<>> THEN 1 ELSE Last(rs).seq + 1 IN
    [seq |-> seq, body |-> body, previous |-> Newest(c, rs),
     digest |-> Digest(c, seq, body, Newest(c, rs))]

\* What the digests of the first i rows should be.
Expected(c, rs) ==
    LET e[i \in 0..Len(rs)] ==
            IF i = 0 THEN Blank
            ELSE Digest(c, rs[i].seq, rs[i].body, e[i - 1])
    IN  e

\* Mutant: the numbered chains verified without looking for gaps.
ValidMutant(c, rs) ==
    \A i \in DOMAIN rs :
        /\ rs[i].previous = Newest(c, SubSeq(rs, 1, i - 1))
        /\ rs[i].digest = Digest(c, rs[i].seq, rs[i].body, rs[i].previous)

\* VerifyEventChains recomputes the chain from its start.  The numbered chains
\* (VerifyAPIAccessChain, VerifyAuthorizationDecisionChain,
\* VerifyTransactionAccessChain) follow the stored digests and require the
\* numbers to have no gap.
Valid(c, rs) ==
    IF Numbered(c)
    THEN \A i \in DOMAIN rs :
            /\ rs[i].seq = i
            /\ rs[i].previous = Newest(c, SubSeq(rs, 1, i - 1))
            /\ rs[i].digest = Digest(c, i, rs[i].body, rs[i].previous)
    ELSE \A i \in DOMAIN rs :
            /\ rs[i].previous = Expected(c, rs)[i - 1]
            /\ rs[i].digest = Expected(c, rs)[i]

\* backfillEventChains, backfillAPIAccessChain: an open gives digests to the
\* rows that have none, and refuses a ledger with a row that has a wrong one.
Adoptable(c, rs) ==
    ~Adopts(c) \/
    \A i \in DOMAIN rs :
        \/ /\ rs[i].previous = Expected(c, rs)[i - 1]
           /\ rs[i].digest = Expected(c, rs)[i]
        \/ rs[i].digest = Blank /\ (c = "events" => rs[i].previous = Blank)

Adopted(c, rs) ==
    IF ~Adopts(c) THEN rs
    ELSE [i \in DOMAIN rs |-> [rs[i] EXCEPT !.previous = Expected(c, rs)[i - 1],
                                            !.digest = Expected(c, rs)[i]]]

Openable(tables) == \A c \in Chains : Adoptable(c, tables[c])
Opened(tables) == [c \in Chains |-> Adopted(c, tables[c])]

\* A row by what its digest is about: the numbers of an event chain carry no
\* meaning and those of the others are part of the digest.
Entry(row) == <<row.body, row.previous, row.digest>>

\* The rows of a chain, each with the digest of the one it stands after, if it
\* is not the first.
Links(rs) == {<<IF i = 1 THEN <<>> ELSE <<rs[i - 1].digest>>, Entry(rs[i])>> :
                i \in DOMAIN rs}

\* Every row was left by FutureDiff where it stands: first, or after the row with
\* that digest, which FutureDiff left too.
IsHistory(c, rs) == Links(rs) \subseteq links[c]

-----------------------------------------------------------------------------
(* The ledger. *)

\* A row of a ledger from before the chain columns existed.
Legacy == [seq |-> 1, body |-> <<0, "whole">>, previous |-> Blank,
           digest |-> Blank]

Init ==
    /\ rows \in [Chains -> {<<>>, <<Legacy>>}]
    /\ \A c \in Chains : ~Adopts(c) => rows[c] = <<>>
    /\ open = FALSE
    /\ tool = None /\ backup = None /\ checkpoint = None
    /\ receipts = 0
    /\ links = [c \in Chains |-> Links(rows[c])]
    /\ count = [rows |-> [c \in Chains |-> 0], damages |-> 0, seals |-> 0]

\* OpenRepository: the event chains are adopted in a transaction of their own,
\* so a broken API chain refuses the open and leaves them adopted.
Open ==
    /\ ~open /\ tool = None
    /\ LET after == IF Openable(rows) THEN Opened(rows)
                    ELSE [c \in Chains |->
                            IF c = "events" /\ Adoptable(c, rows[c])
                            THEN Adopted(c, rows[c]) ELSE rows[c]]
       IN  /\ rows' = after
           /\ links' = [c \in Chains |-> IF after[c] # rows[c]
                                        THEN links[c] \cup Links(after[c])
                                        ELSE links[c]]
    /\ open' = Openable(rows)
    /\ UNCHANGED <<tool, backup, checkpoint, receipts, count>>

\* The daemon stops or dies.
Close ==
    /\ open
    /\ open' = FALSE
    /\ UNCHANGED <<rows, tool, backup, checkpoint, receipts, links, count>>

\* An event chain is never continued after a row without a digest; the
\* numbered chains are continued whatever the newest row holds.
MayAppend(c, rs) == c = "events" /\ rs # <<>> => Newest(c, rs) # Blank

\* appendChainedEvent, RecordAPIAccess, RecordAuthorizationDecision,
\* appendTransactionAccessEvent, each inside the caller's transaction.
AppendRow(c) ==
    /\ open /\ Len(rows[c]) < MaxRows /\ count.rows[c] < MaxRows
    /\ MayAppend(c, rows[c])
    /\ LET old == rows[c]
           new == NewRow(c, old, <<count.rows[c] + 1, "whole">>)
       IN  /\ rows' = [rows EXCEPT ![c] = Append(old, new)]
           /\ links' = [links EXCEPT ![c] = @ \cup
                 {<<IF old = <<>> THEN <<>> ELSE <<Last(old).digest>>,
                    Entry(new)>>}]
    /\ count' = [count EXCEPT !.rows[c] = @ + 1]
    /\ UNCHANGED <<open, tool, backup, checkpoint, receipts>>

RecordReceipt ==
    /\ receipts < MaxReceipts
    /\ receipts' = receipts + 1
    /\ UNCHANGED <<rows, open, tool, backup, checkpoint, links, count>>

\* Something that is not FutureDiff changes, blanks, drops or repeats the i-th
\* row of a chain, or exchanges it with the next one, and recomputes nothing.
DamagedRows(rs, i) ==
    {[rs EXCEPT ![i].body = <<@[1], "changed">>],
     [rs EXCEPT ![i].previous = Blank, ![i].digest = Blank],
     RemoveAt(rs, i),
     Append(rs, [rs[i] EXCEPT !.seq = Last(rs).seq + 1])}
    \cup (IF i = Len(rs) THEN {}
          ELSE {[rs EXCEPT ![i] = [rs[i + 1] EXCEPT !.seq = rs[i].seq],
                           ![i + 1] = [rs[i] EXCEPT !.seq = rs[i + 1].seq]]})

DamageLedger(c) ==
    /\ count.damages < MaxDamage
    /\ \E i \in DOMAIN rows[c] : \E rs \in DamagedRows(rows[c], i) :
           /\ Len(rs) <= MaxRows
           /\ rows' = [rows EXCEPT ![c] = rs]
    /\ count' = [count EXCEPT !.damages = @ + 1]
    /\ UNCHANGED <<open, tool, backup, checkpoint, receipts, links>>

DamageBackup(c) ==
    /\ count.damages < MaxDamage
    /\ backup # None
    /\ \E i \in DOMAIN backup.tables[c] :
          \E rs \in DamagedRows(backup.tables[c], i) :
             backup' = [backup EXCEPT !.tables[c] = rs, !.intact = FALSE]
    /\ count' = [count EXCEPT !.damages = @ + 1]
    /\ UNCHANGED <<rows, open, tool, checkpoint, receipts, links>>

-----------------------------------------------------------------------------
(* Checkpoints. *)

\* Audit's verdict on the chains: the API access chain is not one of them.
Audited(tables) == \A c \in Chains \ {"api"} : Valid(c, tables[c])

Heads(tables) == [c \in Chains |-> Newest(c, tables[c])]

\* Create, up to its audit: the daemon is stopped and kept out by its lock.
SealBegin ==
    /\ ~open /\ tool = None
    /\ count.seals < MaxSeals
    /\ Openable(rows) /\ Audited(Opened(rows))
    /\ rows' = Opened(rows)
    /\ links' = [c \in Chains |-> IF rows'[c] # rows[c]
                                  THEN links[c] \cup Links(rows'[c])
                                  ELSE links[c]]
    /\ tool' = [at |-> "backup", seal |-> count.seals + 1]
    /\ count' = [count EXCEPT !.seals = @ + 1]
    /\ UNCHANGED <<open, backup, checkpoint, receipts>>

\* Create: the backup is published in place of the one before.  Every backup
\* is a file of its own: it holds the catalogue rows of those before it.
SealBackup ==
    /\ tool # None /\ tool.at = "backup"
    /\ backup' = [tables |-> rows, seal |-> tool.seal, intact |-> TRUE]
    /\ tool' = [tool EXCEPT !.at = "heads"]
    /\ UNCHANGED <<rows, open, checkpoint, receipts, links, count>>

\* Create: the heads are read from the ledger, the numbered chains verified.
SealHeads ==
    /\ tool # None /\ tool.at = "heads"
    /\ tool' = IF \A c \in Chains : Numbered(c) => Valid(c, rows[c])
               THEN [at |-> "write", seal |-> tool.seal, heads |-> Heads(rows),
                     receipts |-> receipts]
               ELSE None
    /\ UNCHANGED <<rows, open, backup, checkpoint, receipts, links, count>>

\* Create: the signed checkpoint replaces the one before.
SealWrite ==
    /\ tool # None /\ tool.at = "write"
    /\ checkpoint' = [seal |-> tool.seal, heads |-> tool.heads,
                      receipts |-> tool.receipts]
    /\ tool' = None
    /\ UNCHANGED <<rows, open, backup, receipts, links, count>>

\* A step of Create fails, or the tool dies.
SealFails ==
    /\ tool # None
    /\ tool' = None
    /\ UNCHANGED <<rows, open, backup, checkpoint, receipts, links, count>>

\* Verify: the file is the one that was sealed, its ledger opens and is
\* healthy, its heads are those of the checkpoint (but for the access events,
\* whose chain only the audit looks at), and the receipt chain is still as long
\* as it was.
Holds(file, cp) ==
    /\ file.intact /\ file.seal = cp.seal
    /\ Openable(file.tables)
    /\ LET tables == Opened(file.tables) IN
          /\ Audited(tables)
          /\ \A c \in Chains \ {"access"} :
               /\ Numbered(c) => Valid(c, tables[c])
               /\ Heads(tables)[c] = cp.heads[c]
    /\ cp.receipts > 0 => receipts = cp.receipts

\* Verify opens the file it verifies as a ledger, and so adopts its rows.
VerifyCheckpoint ==
    /\ backup # None /\ checkpoint # None
    /\ Openable(backup.tables)
    /\ Opened(backup.tables) # backup.tables
    /\ backup' = [backup EXCEPT !.tables = Opened(@), !.intact = FALSE]
    /\ UNCHANGED <<rows, open, tool, checkpoint, receipts, links, count>>

Next ==
    \/ Open \/ Close \/ RecordReceipt
    \/ \E c \in Chains : AppendRow(c) \/ DamageLedger(c) \/ DamageBackup(c)
    \/ SealBegin \/ SealBackup \/ SealHeads \/ SealWrite \/ SealFails
    \/ VerifyCheckpoint

ChainsNext == Next
ChainsSpec == Init /\ [][Next]_vars

-----------------------------------------------------------------------------
(* What the chains promise. *)

\* Every row keeps the number it was inserted or repeated under, and a
\* checkpoint is published only by a tool that has read its heads.
ChainsTypeOK ==
    /\ \A c \in Chains : \A i \in DOMAIN rows[c] :
          /\ rows[c][i].seq \in Nat \ {0}
          /\ i > 1 => rows[c][i - 1].seq < rows[c][i].seq
    /\ open \in BOOLEAN /\ (open => tool = None)
    /\ tool # None => tool.at \in {"backup", "heads", "write"}
    /\ checkpoint # None => checkpoint.seal \in 1..count.seals
    /\ receipts \in 0..MaxReceipts

\* In a chain that verifies every row is one FutureDiff left, right after the
\* row whose digest it left it after: no change, insertion, exchange or loss
\* before the newest row survives a verification, whatever was appended since
\* and however often the ledger was opened.  Rows that an open adopted count as
\* left by FutureDiff: the code cannot tell a legacy row from one whose digests
\* were blanked.
GreenIsHistory == \A c \in Chains : Valid(c, rows[c]) => IsHistory(c, rows[c])

\* A checkpoint that verifies vouches for a ledger all of whose chains verify
\* and are FutureDiff's own: damage between the steps of Create, or to the backup
\* later, never goes unnoticed.  A blanked digest that an open restores to what
\* it was is no damage.
CheckpointVouches ==
    checkpoint # None /\ backup # None /\ Holds(backup, checkpoint) =>
        \A c \in Chains :
            LET sealed == Adopted(c, backup.tables[c]) IN
            Valid(c, sealed) /\ IsHistory(c, sealed)

\* What a green verification is worth, of the ledger and of a checkpoint.
ChainsAreHonest == GreenIsHistory /\ CheckpointVouches

\* A checkpoint that verified verifies until another takes its place (the
\* comment at Create: "The previous checkpoint at output is preserved unless
\* the full sequence succeeds").  The code breaks it: the backup is replaced
\* before the checkpoint is, and a receipt recorded later breaks it too.
CheckpointKept ==
    [][checkpoint # None /\ Holds(backup, checkpoint) /\ checkpoint' = checkpoint
       /\ count'.damages = count.damages => Holds(backup, checkpoint)']_vars
=============================================================================
