---------------------------- MODULE WalletSession ----------------------------
(***************************************************************************)
(* The desktop app's wallet session: the encrypted wallet file and the     *)
(* mnemonic cache (wallet/persister.rs), the unlocked flag and activity    *)
(* clock of AppStateManager (state.rs), the node's SDK (node.rs), the      *)
(* Tauri commands that drive them and the auto-lock timer (lib.rs,         *)
(* commands.rs).                                                           *)
(*                                                                         *)
(* Manager and node have a mutex each and no command holds both: a command *)
(* is a sequence of steps, each under one mutex, and other commands or     *)
(* the timer may run between them.  A wrong password changes nothing and   *)
(* is a step the model does not take.                                      *)
(***************************************************************************)
EXTENDS Naturals, FiniteSets

CONSTANTS
    Callers,     \* command invocations of the front end that may be pending
    Mnemonics,   \* recovery phrases
    MaxInFlight  \* bound: commands in flight at once, the auto-lock included

VARIABLES
    file,             \* what wallet.json decrypts to; Torn if it does not
    cached_mnemonic,  \* MnemonicPersister.cached_mnemonic
    wallet_unlocked,  \* AppStateManager.wallet_unlocked
    idle,             \* last_activity is AUTO_LOCK_TIMEOUT_SECS ago
    sdk,              \* the node's SDK: NoNode, Locked, or the phrase it runs
    command,          \* command[c]: the next step of caller c's command
    autolock,         \* TRUE: check_auto_lock fired, the node not yet locked
    alone,            \* history: nothing else began since the last command did
    mixed,            \* history: commands overlapped, and none has put it right
    replaced          \* history: the file was written under a phrase in use, and
                      \* no command has put it right

manager == <<file, cached_mnemonic, wallet_unlocked, idle>>
history == <<alone, mixed, replaced>>
vars == <<manager, sdk, command, autolock, history>>

None == "none"
Torn == "torn"
NoNode == "no_node"
Locked == "locked"

(* No recovery phrase is one of the marks above, and finitely many commands *)
(* are pending at a time.                                                   *)
ASSUME SessionAssumption ==
    /\ Mnemonics \cap {None, Torn, NoNode, Locked} = {}
    /\ IsFiniteSet(Callers)
    /\ MaxInFlight \in Nat

Done == [step |-> "done", mnemonic |-> None]

InFlight == Cardinality({c \in Callers : command[c] # Done})
            + Cardinality({b \in {autolock} : b})

MayStart == InFlight < MaxInFlight

AtRest == InFlight = 0

Unlocked == sdk \in Mnemonics

(* History: a command begins, perhaps beside others; one writes the file   *)
(* although cache or node hold a phrase; one ends, and puts things right   *)
(* if nothing overlapped it.                                               *)
Overlaps ==
    /\ alone' = (InFlight = 0)
    /\ mixed' = (mixed \/ InFlight > 0)

Begins == Overlaps /\ UNCHANGED replaced

BeginsToWrite ==
    /\ Overlaps
    /\ replaced' = (replaced \/ cached_mnemonic # None \/ Unlocked)

PutsRight ==
    /\ mixed' = (mixed /\ ~alone)
    /\ replaced' = (replaced /\ ~alone)
    /\ UNCHANGED alone

(* Caller c starts a command whose next step is s, or ends one. *)
Starts(c, s) ==
    /\ MayStart
    /\ command[c] = Done
    /\ command' = [command EXCEPT ![c] = [Done EXCEPT !.step = s]]
    /\ Begins

Ends(c, s) ==
    /\ command[c].step = s
    /\ command' = [command EXCEPT ![c] = Done]

Init ==
    /\ file = None
    /\ cached_mnemonic = None
    /\ wallet_unlocked = FALSE
    /\ idle = FALSE
    /\ sdk = NoNode
    /\ command = [c \in Callers |-> Done]
    /\ autolock = FALSE
    /\ alone = TRUE /\ mixed = FALSE /\ replaced = FALSE

-----------------------------------------------------------------------------
(* Commands of one step, under the manager's mutex. *)

(* create_wallet and restore_wallet: a wallet file that exists is replaced. *)
(* The cache and the node are left alone.                                   *)
SaveWallet(mnemonic) ==
    /\ MayStart
    /\ file' = mnemonic
    /\ UNCHANGED <<cached_mnemonic, wallet_unlocked, idle, sdk, command, autolock>>
    /\ BeginsToWrite

(* The file is written in place: a write that fails, or that the process   *)
(* does not survive (Restart follows), leaves a file that does not decrypt *)
(* and counts as a wallet, in place of a good one if there was one.        *)
SaveTorn ==
    /\ MayStart
    /\ file' = Torn
    /\ UNCHANGED <<cached_mnemonic, wallet_unlocked, idle, sdk, command, autolock>>
    /\ BeginsToWrite

(* get_mnemonic_word_count and get_mnemonic_word with the right password;  *)
(* get_wallet_mnemonic decrypts the file whether or not there is a cache.  *)
ReadMnemonic ==
    /\ MayStart
    /\ file \in Mnemonics
    /\ cached_mnemonic' \in
          {file} \cup (IF cached_mnemonic = None THEN {} ELSE {cached_mnemonic})
    /\ UNCHANGED <<file, wallet_unlocked, idle, sdk, command, autolock>>
    /\ Begins

record_activity ==
    /\ idle' = FALSE
    /\ UNCHANGED <<file, cached_mnemonic, wallet_unlocked, sdk, command, autolock, history>>

-----------------------------------------------------------------------------
(* unlock_wallet: decrypt, unlock the node, set the flag. *)

UnlockDecrypt(c) ==
    LET mnemonic == IF cached_mnemonic # None THEN cached_mnemonic ELSE file
    IN  /\ MayStart
        /\ command[c] = Done
        /\ mnemonic \in Mnemonics
        /\ cached_mnemonic' = mnemonic
        /\ command' = [command EXCEPT ![c] =
                          [step |-> "unlock_node", mnemonic |-> mnemonic]]
        /\ UNCHANGED <<file, wallet_unlocked, idle, sdk, autolock>>
        /\ Begins

UnlockNode(c) ==
    /\ command[c].step = "unlock_node"
    /\ sdk = Locked
    /\ sdk' = command[c].mnemonic
    /\ command' = [command EXCEPT ![c] = [Done EXCEPT !.step = "unlock_flag"]]
    /\ UNCHANGED <<manager, autolock, history>>

(* "Node not initialized", WalletAlreadyUnlocked, or DeadcatSdk::new fails. *)
UnlockNodeFails(c) ==
    /\ Ends(c, "unlock_node")
    /\ UNCHANGED <<manager, sdk, autolock, history>>

UnlockFlag(c) ==
    /\ Ends(c, "unlock_flag")
    /\ wallet_unlocked' = TRUE
    /\ idle' = FALSE
    /\ UNCHANGED <<file, cached_mnemonic, sdk, autolock, history>>

-----------------------------------------------------------------------------
(* lock_wallet, delete_wallet and delete_nostr_identity: the node first,   *)
(* then the manager.                                                       *)

NodeLockWallet == IF sdk = NoNode THEN NoNode ELSE Locked

LockNode(c) ==
    /\ Starts(c, "lock_flag")
    /\ sdk' = NodeLockWallet
    /\ UNCHANGED <<manager, autolock>>

LockFlag(c) ==
    /\ Ends(c, "lock_flag")
    /\ wallet_unlocked' = FALSE
    /\ cached_mnemonic' = None
    /\ UNCHANGED <<file, idle, sdk, autolock>>
    /\ PutsRight

DeleteNode(c) ==
    /\ Starts(c, "delete_flag")
    /\ sdk' = NodeLockWallet
    /\ UNCHANGED <<manager, autolock>>

(* Faulty delete: the cached phrase of the deleted wallet is kept. *)
DeleteKeepsCache(c) ==
    /\ Ends(c, "delete_flag")
    /\ wallet_unlocked' = FALSE
    /\ file' = None
    /\ UNCHANGED <<cached_mnemonic, idle, sdk, autolock>>
    /\ PutsRight

(* persister.delete may fail to remove the file, after the flag was reset. *)
DeleteFlag(c) ==
    /\ Ends(c, "delete_flag")
    /\ wallet_unlocked' = FALSE
    /\ \/ file' = None /\ cached_mnemonic' = None /\ PutsRight
       \/ file # None /\ UNCHANGED <<file, cached_mnemonic, history>>
    /\ UNCHANGED <<idle, sdk, autolock>>

DeleteIdentityNode(c) ==
    /\ Starts(c, "lock_flag")
    /\ sdk' = NoNode
    /\ UNCHANGED <<manager, autolock>>

-----------------------------------------------------------------------------
(* construct_and_store_node: the manager first, then the node. *)

(* Faulty reset: the flag of the node about to be dropped is kept. *)
ResetKeepsFlag(c) ==
    /\ Starts(c, "replace_node")
    /\ cached_mnemonic' = None
    /\ UNCHANGED <<file, wallet_unlocked, idle, sdk, autolock>>

ResetSession(c) ==
    /\ Starts(c, "replace_node")
    /\ wallet_unlocked' = FALSE
    /\ cached_mnemonic' = None
    /\ UNCHANGED <<file, idle, sdk, autolock>>

ReplaceNode(c) ==
    /\ Ends(c, "replace_node")
    /\ sdk' = Locked
    /\ UNCHANGED <<manager, autolock>>
    /\ PutsRight

-----------------------------------------------------------------------------
(* The auto-lock timer. *)

check_auto_lock ==
    /\ MayStart
    /\ ~autolock
    /\ idle /\ wallet_unlocked
    /\ wallet_unlocked' = FALSE
    /\ cached_mnemonic' = None
    /\ autolock' = TRUE
    /\ UNCHANGED <<file, idle, sdk, command>>
    /\ Begins

(* Faulty timer: only the flag is reset, the node stays unlocked. *)
AutoLockFlagOnly ==
    /\ autolock
    /\ autolock' = FALSE
    /\ UNCHANGED <<manager, sdk, command>>
    /\ PutsRight

AutoLockNode ==
    /\ autolock
    /\ sdk' = NodeLockWallet
    /\ autolock' = FALSE
    /\ UNCHANGED <<manager, command>>
    /\ PutsRight

(* Time passes without activity; the process dies and starts again. *)
TimeOut ==
    /\ ~idle
    /\ idle' = TRUE
    /\ UNCHANGED <<file, cached_mnemonic, wallet_unlocked, sdk, command, autolock, history>>

Restart ==
    /\ cached_mnemonic' = None
    /\ wallet_unlocked' = FALSE
    /\ idle' = FALSE
    /\ sdk' = NoNode
    /\ command' = [c \in Callers |-> Done]
    /\ autolock' = FALSE
    /\ UNCHANGED file
    /\ alone' = TRUE /\ mixed' = FALSE /\ replaced' = FALSE

-----------------------------------------------------------------------------
(* The later steps of a command run to its end. *)
Continue(c) ==
    \/ UnlockNode(c) \/ UnlockNodeFails(c) \/ UnlockFlag(c)
    \/ LockFlag(c) \/ DeleteFlag(c) \/ ReplaceNode(c)

Start(c) ==
    UnlockDecrypt(c) \/ LockNode(c) \/ DeleteNode(c) \/ DeleteIdentityNode(c)
        \/ ResetSession(c)

Next ==
    \/ \E mnemonic \in Mnemonics : SaveWallet(mnemonic)
    \/ SaveTorn
    \/ ReadMnemonic
    \/ record_activity
    \/ \E c \in Callers : Start(c) \/ Continue(c)
    \/ check_auto_lock \/ AutoLockNode
    \/ TimeOut \/ Restart

(* Tokio runs every spawned task, and the timer's check is delayed by      *)
(* commands only for as long as one holds the mutex, hence the strong      *)
(* fairness against the bound on commands in flight.                       *)
Fairness ==
    /\ \A c \in Callers : WF_vars(Continue(c))
    /\ WF_vars(AutoLockNode)
    /\ SF_vars(check_auto_lock)

Spec == Init /\ [][Next]_vars /\ Fairness
-----------------------------------------------------------------------------
(* Properties. *)

Steps == {"done", "unlock_node", "unlock_flag", "lock_flag", "delete_flag",
          "replace_node"}

TypeOK ==
    /\ file \in Mnemonics \cup {None, Torn}
    /\ cached_mnemonic \in Mnemonics \cup {None}
    /\ wallet_unlocked \in BOOLEAN /\ idle \in BOOLEAN /\ autolock \in BOOLEAN
    /\ sdk \in Mnemonics \cup {NoNode, Locked}
    /\ command \in [Callers -> [step : Steps, mnemonic : Mnemonics \cup {None}]]
    /\ InFlight <= MaxInFlight
    /\ alone \in BOOLEAN /\ mixed \in BOOLEAN /\ replaced \in BOOLEAN

(* What the field's comment says of wallet_unlocked: between commands the  *)
(* manager's flag tells whether the node's wallet is unlocked.  Commands   *)
(* that overlap may leave it wrong, whatever they are, but only until a    *)
(* lock, a deletion, a new identity or the timer runs by itself.           *)
FlagTellsNode == AtRest /\ ~mixed => (wallet_unlocked <=> Unlocked)

(* Between commands an unlocked node runs the wallet that is stored, and   *)
(* what a backup would show from the cache is that wallet's phrase, across *)
(* deletions, failed deletions, failed unlocks, torn files and restarts.   *)
(* A wallet created or restored over one in use is excepted: node and      *)
(* cache keep the old phrase, and an unlock may run it, but only until a   *)
(* command or the timer that nothing overlaps locks or deletes the wallet  *)
(* or replaces the node.  A write over a wallet that is not open is safe.  *)
SessionIsStoredWallet ==
    /\ TypeOK
    /\ AtRest /\ ~mixed /\ ~replaced =>
          /\ Unlocked => sdk = file
          /\ cached_mnemonic # None => cached_mnemonic = file

(* A wallet left alone is locked by the timer, however it was unlocked,    *)
(* unless overlapping commands hide from the timer that it is unlocked.    *)
AutoLocks == Unlocked /\ idle /\ ~mixed ~> ~Unlocked \/ ~idle \/ mixed
=============================================================================
