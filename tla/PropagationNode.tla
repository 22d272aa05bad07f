--------------------------- MODULE PropagationNode ---------------------------
(***************************************************************************)
(* The message store of an LXMF propagation node (lxmf/router.go): the map  *)
(* propagationEntries, the files that back it and the duplicate cache       *)
(* locallyProcessedIDs, in memory and on disk.                              *)
(*                                                                          *)
(* A COPY is what the code identifies by a transient ID: one encrypted      *)
(* envelope.  Two copies may hold the same message, since a sender that     *)
(* tries again encrypts again.  LocalCopies are addressed to a delivery     *)
(* destination of the node itself; all others to the client that syncs.     *)
(***************************************************************************)
EXTENDS FiniteSets, Naturals

CONSTANTS
    Copies,         \* the transient IDs senders upload
    LocalCopies,    \* those whose destination the node itself hosts
    MaxNodeFaults   \* bound on failed file operations, culls and stops

ASSUME NodeAssumption ==
    /\ LocalCopies \subseteq Copies
    /\ MaxNodeFaults \in Nat

VARIABLES
    entries,        \* propagationEntries
    files,          \* the message store directory
    nodeProcessed,  \* locallyProcessedIDs of the node
    nodeFile,       \* the file they are saved to
    handedLocally,  \* local copies given to the node's own delivery callback
    stored,         \* copies the node ever put into entries
    dropped,        \* copies the node gave up: expired, culled, never on disk
    faults          \* what MaxNodeFaults bounds

nodeVars == <<entries, files, nodeProcessed, nodeFile,
              handedLocally, stored, dropped, faults>>

NodeInit ==
    /\ entries = {}
    /\ files = {}
    /\ nodeProcessed = {}
    /\ nodeFile = {}
    /\ handedLocally = {}
    /\ stored = {}
    /\ dropped = {}
    /\ faults = 0

(* Each step that is a fault counts against the bound. *)
FaultIf(isFault) ==
    /\ isFault => faults < MaxNodeFaults
    /\ faults' = IF isFault THEN faults + 1 ELSE faults

(***************************************************************************)
(* What handlePropagatedInbound lets through: copies neither stored nor     *)
(* processed.                                                               *)
(***************************************************************************)
Unprocessed(cs, inStore, processedIDs) == cs \ (inStore \union processedIDs)

(***************************************************************************)
(* ingestPropagationMessage.  A copy that is stored or was processed is     *)
(* refused, any other is marked processed.  One for a destination of the    *)
(* node then goes to handlePropagatedInbound, which does its own duplicate  *)
(* check; any other is stored by storePropagationMessageStamped.  A file    *)
(* that cannot be written is logged and the entry kept without one; a       *)
(* stamped message of value 0 gets a file name the index does not read,     *)
(* which comes to the same.                                                 *)
(***************************************************************************)
Upload(c, written) ==
    /\ c \notin entries \union nodeProcessed
    /\ nodeProcessed' = nodeProcessed \union {c}
    /\ IF c \in LocalCopies
       THEN /\ handedLocally' = handedLocally
                                  \union Unprocessed({c}, entries, nodeProcessed')
            /\ UNCHANGED <<entries, files, stored, faults>>
       ELSE /\ FaultIf(~written)
            /\ entries' = entries \union {c}
            /\ files' = IF written THEN files \union {c} ELSE files
            /\ stored' = stored \union {c}
            /\ UNCHANGED handedLocally
    /\ UNCHANGED <<nodeFile, dropped>>

(***************************************************************************)
(* The part of messageGetRequest that deletes what the client reports it    *)
(* has: the entry goes, and its file unless os.Remove fails, which is only  *)
(* logged.                                                                  *)
(***************************************************************************)
Purge(haves, removed) ==
    /\ FaultIf(~removed)
    /\ entries' = entries \ haves
    /\ files' = IF removed THEN files \ (entries \intersect haves) ELSE files
    /\ UNCHANGED <<nodeProcessed, nodeFile, handedLocally, stored,
                   dropped>>

(***************************************************************************)
(* cleanMessageStore: an expired message, or one culled to respect the      *)
(* storage limit, leaves the map and, unless os.Remove fails, the directory.*)
(***************************************************************************)
Cull(c, removed) ==
    /\ c \in entries
    /\ FaultIf(TRUE)
    /\ entries' = entries \ {c}
    /\ files' = IF removed THEN files \ {c} ELSE files
    /\ dropped' = dropped \union {c}
    /\ UNCHANGED <<nodeProcessed, nodeFile, handedLocally, stored>>

(***************************************************************************)
(* A start of the node: LoadLocalTransientIDCaches reads the saved cache    *)
(* and reindexPropagationStoreLocked makes one entry per file.  An entry    *)
(* whose file could not be written is gone.                                 *)
(***************************************************************************)
StartFrom(saved) ==
    /\ FaultIf(TRUE)
    /\ nodeFile' = saved
    /\ nodeProcessed' = saved
    /\ entries' = files
    /\ dropped' = dropped \union (entries \ files)
    /\ UNCHANGED <<files, handedLocally, stored>>

NodeCrash == StartFrom(nodeFile)

(* Close saves the processed IDs, unless there are none. *)
NodeRestart == StartFrom(IF nodeProcessed = {} THEN nodeFile ELSE nodeProcessed)

NodeNext ==
    \/ \E c \in Copies, written \in BOOLEAN : Upload(c, written)
    \/ \E c \in Copies, removed \in BOOLEAN : Cull(c, removed)
    \/ NodeCrash
    \/ NodeRestart

NodeTypeOK ==
    /\ entries \subseteq Copies
    /\ files \subseteq Copies
    /\ nodeProcessed \subseteq Copies
    /\ nodeFile \subseteq Copies
    /\ handedLocally \subseteq LocalCopies
    /\ stored \subseteq Copies \ LocalCopies
    /\ dropped \subseteq stored
    /\ faults \in 0 .. MaxNodeFaults

(***************************************************************************)
(* A message uploaded for a destination the node itself hosts reaches the   *)
(* delivery callback: every processed local copy was handed over.  This is  *)
(* the local-delivery branch of ingestPropagationMessage, described at      *)
(* lxmf/router.go:6704 for the paper path ("delivers messages addressed to  *)
(* a local delivery destination").  The branch marks the copy processed and then asks                        *)
(* handlePropagatedInbound, which takes the mark for a duplicate.           *)
(***************************************************************************)
LocalUploadIsHandedOver ==
    nodeProcessed \intersect LocalCopies \subseteq handedLocally
=============================================================================
