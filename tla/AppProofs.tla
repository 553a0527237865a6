------------------------------ MODULE AppProofs ------------------------------
(***************************************************************************)
(* Proofs about the desktop application: WalletSession, for any number of   *)
(* overlapping commands and any set of recovery phrases, and Payments, for  *)
(* any requests, networks and limits of the service, and any number of      *)
(* commands, swaps and restarts.                                            *)
(***************************************************************************)
EXTENDS WalletSession, Payments, FiniteSetTheorems, TLAPS

-----------------------------------------------------------------------------
(* The wallet session: the inductive invariant.                             *)

\* Nothing is under way, or at most one thing is.
Quiet == ~autolock /\ \A c \in Callers : command[c] = Done

AtMostOne ==
    /\ autolock => \A c \in Callers : command[c] = Done
    /\ \A c, d \in Callers : command[c] # Done /\ command[d] # Done => c = d

\* What the history variables tell about overlapping.
HistoryOK == (alone => AtMostOne) /\ (~mixed => alone)

\* Manager, node and file agree; the file need not if it was replaced.
CacheOK == cached_mnemonic # None => cached_mnemonic = file
NodeOK == Unlocked => sdk = file
FlagOK == wallet_unlocked <=> Unlocked
Agreed == FlagOK /\ (~replaced => NodeOK /\ CacheOK)

\* What a command that nothing overlapped has established so far, even if
\* earlier ones left a disagreement.
Alone(c) ==
    /\ command[c].step \in {"lock_flag", "delete_flag"} => ~Unlocked
    /\ command[c].step = "replace_node" => ~wallet_unlocked /\ cached_mnemonic = None

\* And what it relies on when they left none.
Unmixed(c) ==
    /\ command[c].step \in {"lock_flag", "delete_flag"} /\ ~replaced => CacheOK
    /\ command[c].step = "unlock_node" =>
          /\ Agreed
          /\ ~replaced => /\ command[c].mnemonic = file /\ file \in Mnemonics
                          /\ cached_mnemonic = file
    /\ command[c].step = "unlock_flag" => Unlocked /\ (~replaced => NodeOK /\ CacheOK)

\* Only a command between its critical sections is in flight, and one that is
\* about to unlock the node holds a phrase.
StepsOK ==
    \A c \in Callers : /\ command[c].step = "done" => command[c] = Done
                       /\ command[c].step = "unlock_node" => command[c].mnemonic \in Mnemonics

\* The types, without the bound on commands in flight.
Typed ==
    /\ file \in Mnemonics \cup {None, Torn}
    /\ cached_mnemonic \in Mnemonics \cup {None}
    /\ wallet_unlocked \in BOOLEAN /\ idle \in BOOLEAN /\ autolock \in BOOLEAN
    /\ sdk \in Mnemonics \cup {NoNode, Locked}
    /\ command \in [Callers -> [step : Steps, mnemonic : Mnemonics \cup {None}]]
    /\ alone \in BOOLEAN /\ mixed \in BOOLEAN /\ replaced \in BOOLEAN

SessionInv ==
    /\ Typed
    /\ StepsOK
    /\ HistoryOK
    /\ alone => \A c \in Callers : Alone(c)
    /\ alone /\ autolock => ~wallet_unlocked /\ cached_mnemonic = None
    /\ ~mixed => \A c \in Callers : Unmixed(c)
    /\ ~mixed /\ Quiet => Agreed

-----------------------------------------------------------------------------
(* Counting what is in flight.                                              *)

Busy(f) == {d \in Callers : f[d] # Done}

(* Finitely many commands are in flight. *)
LEMMA BusyFinite ==
    ASSUME NEW f
    PROVE  IsFiniteSet(Busy(f)) /\ Cardinality(Busy(f)) \in Nat
<1>1. Busy(f) \in SUBSET Callers
    BY DEF Busy
<1> QED
    BY <1>1, SessionAssumption, FS_Subset, FS_CardinalityType

(* A caller that begins a command adds one. *)
LEMMA BusyBegins ==
    ASSUME NEW T, NEW f \in [Callers -> T], NEW c \in Callers, f[c] = Done, NEW x, x # Done
    PROVE  Cardinality(Busy([f EXCEPT ![c] = x])) = Cardinality(Busy(f)) + 1
<1>1. Busy([f EXCEPT ![c] = x]) = Busy(f) \cup {c} /\ c \notin Busy(f)
    BY DEF Busy
<1> QED
    BY <1>1, BusyFinite, FS_AddElement

(* A caller in the middle of a command adds none. *)
LEMMA BusyContinues ==
    ASSUME NEW T, NEW f \in [Callers -> T], NEW c \in Callers, f[c] # Done, NEW x
    PROVE  Cardinality(Busy([f EXCEPT ![c] = x])) <= Cardinality(Busy(f))
<1>1. Busy([f EXCEPT ![c] = x]) \in SUBSET Busy(f)
    BY DEF Busy
<1> QED
    BY <1>1, BusyFinite, FS_Subset

(* The timer counts as one command. *)
LEMMA TimerCount ==
    ASSUME NEW b \in BOOLEAN
    PROVE  Cardinality({a \in {b} : a}) = IF b THEN 1 ELSE 0
<1>1. CASE b
    <2>1. {a \in {b} : a} = {TRUE}
        BY <1>1
    <2> QED
        BY <1>1, <2>1, FS_Singleton
<1>2. CASE ~b
    <2>1. {a \in {b} : a} = {}
        BY <1>2
    <2> QED
        BY <1>2, <2>1, FS_EmptySet
<1> QED
    BY <1>1, <1>2

(* InFlight, without cardinalities of the timer. *)
LEMMA InFlightIs ==
    ASSUME autolock \in BOOLEAN
    PROVE  InFlight = Cardinality(Busy(command)) + (IF autolock THEN 1 ELSE 0)
BY TimerCount DEF InFlight, Busy

(* The same of the next state. *)
LEMMA InFlightIsNext ==
    ASSUME (autolock \in BOOLEAN)'
    PROVE  InFlight' = Cardinality(Busy(command')) + (IF autolock' THEN 1 ELSE 0)
BY TimerCount DEF InFlight, Busy

(* Nothing is in flight exactly when every caller is done and the timer is   *)
(* not between its two steps.                                               *)
LEMMA AtRestIsQuiet ==
    ASSUME autolock \in BOOLEAN
    PROVE  InFlight \in Nat /\ (InFlight = 0 <=> Quiet)
<1>1. Cardinality(Busy(command)) = 0 <=> Busy(command) = {}
    BY BusyFinite, FS_EmptySet
<1>2. Busy(command) = {} <=> \A c \in Callers : command[c] = Done
    BY DEF Busy
<1> QED
    BY <1>1, <1>2, BusyFinite, InFlightIs DEF Quiet

-----------------------------------------------------------------------------
(* The invariant is preserved.                                              *)

(* What a command that begins records, without counting. *)
LEMMA BeginsRecords ==
    ASSUME autolock \in BOOLEAN, Overlaps
    PROVE  alone' = Quiet /\ mixed' = (mixed \/ ~Quiet)
<1>1. InFlight \in Nat /\ (InFlight = 0 <=> Quiet)
    BY AtRestIsQuiet
<1>2. (InFlight = 0) = Quiet /\ (InFlight > 0) = ~Quiet
    BY <1>1 DEF Quiet
<1> QED
    BY <1>2 DEF Overlaps

USE SessionAssumption DEF SessionInv, Typed, StepsOK, HistoryOK, Alone, Unmixed, Agreed,
    CacheOK, NodeOK, FlagOK, Quiet, AtMostOne, Done, Unlocked, NodeLockWallet, manager, history, Steps,
    None, Torn, NoNode, Locked

(* create_wallet or restore_wallet writes the file. *)
LEMMA SaveWalletStep ==
    ASSUME SessionInv, NEW m \in Mnemonics, SaveWallet(m)
    PROVE  SessionInv'
<1>1. alone' = Quiet /\ mixed' = (mixed \/ ~Quiet)
    BY BeginsRecords DEF SaveWallet, BeginsToWrite
<1> QED
    BY <1>1 DEF SaveWallet, BeginsToWrite

(* The write of the file does not complete. *)
LEMMA SaveTornStep ==
    ASSUME SessionInv, SaveTorn
    PROVE  SessionInv'
<1>1. alone' = Quiet /\ mixed' = (mixed \/ ~Quiet)
    BY BeginsRecords DEF SaveTorn, BeginsToWrite
<1> QED
    BY <1>1 DEF SaveTorn, BeginsToWrite

(* A recovery word is read, which may fill the cache. *)
LEMMA ReadMnemonicStep ==
    ASSUME SessionInv, ReadMnemonic
    PROVE  SessionInv'
<1>1. alone' = Quiet /\ mixed' = (mixed \/ ~Quiet)
    BY BeginsRecords DEF ReadMnemonic, Begins
<1> QED
    BY <1>1 DEF ReadMnemonic, Begins

(* unlock_wallet decrypts the phrase, or takes the cached one. *)
LEMMA UnlockDecryptStep ==
    ASSUME SessionInv, NEW c \in Callers, UnlockDecrypt(c)
    PROVE  SessionInv'
<1>1. alone' = Quiet /\ mixed' = (mixed \/ ~Quiet)
    BY BeginsRecords DEF UnlockDecrypt, Begins
<1> QED
    BY <1>1 DEF UnlockDecrypt, Begins

(* lock_wallet locks the node first. *)
LEMMA LockNodeStep ==
    ASSUME SessionInv, NEW c \in Callers, LockNode(c)
    PROVE  SessionInv'
<1>1. alone' = Quiet /\ mixed' = (mixed \/ ~Quiet)
    BY BeginsRecords DEF LockNode, Begins, Starts
<1> QED
    BY <1>1 DEF LockNode, Starts, Begins

(* So does delete_wallet. *)
LEMMA DeleteNodeStep ==
    ASSUME SessionInv, NEW c \in Callers, DeleteNode(c)
    PROVE  SessionInv'
<1>1. alone' = Quiet /\ mixed' = (mixed \/ ~Quiet)
    BY BeginsRecords DEF DeleteNode, Begins, Starts
<1> QED
    BY <1>1 DEF DeleteNode, Starts, Begins

(* delete_nostr_identity drops the node. *)
LEMMA DeleteIdentityNodeStep ==
    ASSUME SessionInv, NEW c \in Callers, DeleteIdentityNode(c)
    PROVE  SessionInv'
<1>1. alone' = Quiet /\ mixed' = (mixed \/ ~Quiet)
    BY BeginsRecords DEF DeleteIdentityNode, Begins, Starts
<1> QED
    BY <1>1 DEF DeleteIdentityNode, Starts, Begins

(* A new node: the manager is reset first. *)
LEMMA ResetSessionStep ==
    ASSUME SessionInv, NEW c \in Callers, ResetSession(c)
    PROVE  SessionInv'
<1>1. /\ alone' \in BOOLEAN /\ mixed' \in BOOLEAN
      /\ alone' <=> Quiet
      /\ mixed' <=> mixed \/ ~Quiet
      /\ replaced' = replaced
    BY BeginsRecords DEF ResetSession, Begins, Starts
<1>2. Typed' /\ StepsOK'
    BY <1>1 DEF ResetSession, Starts
<1>3. HistoryOK'
    BY <1>1 DEF ResetSession, Starts
<1>4. /\ alone' => \A d \in Callers : Alone(d)'
      /\ alone' /\ autolock' => (~wallet_unlocked /\ cached_mnemonic = None)'
    BY <1>1 DEF ResetSession, Starts
<1>5. ~mixed' => \A d \in Callers : Unmixed(d)'
    BY <1>1 DEF ResetSession, Starts
<1>6. ~mixed' /\ Quiet' => Agreed'
    BY <1>1 DEF ResetSession, Starts
<1> HIDE DEF Typed, StepsOK, HistoryOK, Alone, Unmixed, Agreed, Quiet
<1> QED
    BY <1>2, <1>3, <1>4, <1>5, <1>6

(* The timer resets the manager and has yet to lock the node. *)
LEMMA CheckAutoLockStep ==
    ASSUME SessionInv, check_auto_lock
    PROVE  SessionInv'
<1>1. /\ alone' \in BOOLEAN /\ mixed' \in BOOLEAN
      /\ alone' <=> Quiet
      /\ mixed' <=> mixed \/ ~Quiet
      /\ replaced' = replaced
    BY BeginsRecords DEF check_auto_lock, Begins
<1>2. Typed' /\ StepsOK'
    BY <1>1 DEF check_auto_lock
<1>3. HistoryOK'
    BY <1>1 DEF check_auto_lock
<1>4. /\ alone' => \A d \in Callers : Alone(d)'
      /\ alone' /\ autolock' => (~wallet_unlocked /\ cached_mnemonic = None)'
    BY <1>1 DEF check_auto_lock
<1>5. ~mixed' => \A d \in Callers : Unmixed(d)'
    BY <1>1 DEF check_auto_lock
<1>6. ~mixed' /\ Quiet' => Agreed'
    BY <1>1 DEF check_auto_lock
<1> HIDE DEF Typed, StepsOK, HistoryOK, Alone, Unmixed, Agreed, Quiet
<1> QED
    BY <1>2, <1>3, <1>4, <1>5, <1>6

(* unlock_wallet reaches the node. *)
LEMMA UnlockNodeStep ==
    ASSUME SessionInv, NEW c \in Callers, UnlockNode(c)
    PROVE  SessionInv'
<1>1. /\ alone' \in BOOLEAN /\ mixed' \in BOOLEAN
      /\ alone' <=> alone
      /\ mixed' <=> mixed
      /\ replaced' = replaced
    BY DEF UnlockNode
<1>2. Typed' /\ StepsOK'
    BY <1>1 DEF UnlockNode
<1>3. HistoryOK'
    BY <1>1 DEF UnlockNode
<1>4. /\ alone' => \A d \in Callers : Alone(d)'
      /\ alone' /\ autolock' => (~wallet_unlocked /\ cached_mnemonic = None)'
    BY <1>1 DEF UnlockNode
<1>5. ~mixed' => \A d \in Callers : Unmixed(d)'
    BY <1>1 DEF UnlockNode
<1>6. ~mixed' /\ Quiet' => Agreed'
    BY <1>1 DEF UnlockNode
<1> HIDE DEF Typed, StepsOK, HistoryOK, Alone, Unmixed, Agreed, Quiet
<1> QED
    BY <1>2, <1>3, <1>4, <1>5, <1>6

(* Or the node refuses. *)
LEMMA UnlockNodeFailsStep ==
    ASSUME SessionInv, NEW c \in Callers, UnlockNodeFails(c)
    PROVE  SessionInv'
BY DEF UnlockNodeFails, Ends

(* unlock_wallet sets the flag. *)
LEMMA UnlockFlagStep ==
    ASSUME SessionInv, NEW c \in Callers, UnlockFlag(c)
    PROVE  SessionInv'
<1>1. /\ alone' \in BOOLEAN /\ mixed' \in BOOLEAN
      /\ alone' <=> alone
      /\ mixed' <=> mixed
      /\ replaced' = replaced
    BY DEF UnlockFlag, Ends
<1>2. Typed' /\ StepsOK'
    BY <1>1 DEF UnlockFlag, Ends
<1>3. HistoryOK'
    BY <1>1 DEF UnlockFlag, Ends
<1>4. /\ alone' => \A d \in Callers : Alone(d)'
      /\ alone' /\ autolock' => (~wallet_unlocked /\ cached_mnemonic = None)'
    BY <1>1 DEF UnlockFlag, Ends
<1>5. ~mixed' => \A d \in Callers : Unmixed(d)'
    BY <1>1 DEF UnlockFlag, Ends
<1>6. ~mixed' /\ Quiet' => Agreed'
    BY <1>1 DEF UnlockFlag, Ends
<1> HIDE DEF Typed, StepsOK, HistoryOK, Alone, Unmixed, Agreed, Quiet
<1> QED
    BY <1>2, <1>3, <1>4, <1>5, <1>6

(* lock_wallet resets flag and cache. *)
LEMMA LockFlagStep ==
    ASSUME SessionInv, NEW c \in Callers, LockFlag(c)
    PROVE  SessionInv'
<1>1. /\ alone' \in BOOLEAN /\ mixed' \in BOOLEAN
      /\ alone' <=> alone
      /\ mixed' <=> mixed /\ ~alone
      /\ replaced' \in BOOLEAN /\ (replaced' <=> replaced /\ ~alone)
    BY DEF LockFlag, Ends, PutsRight
<1>2. Typed' /\ StepsOK'
    BY <1>1 DEF LockFlag, Ends
<1>3. HistoryOK'
    BY <1>1 DEF LockFlag, Ends
<1>4. /\ alone' => \A d \in Callers : Alone(d)'
      /\ alone' /\ autolock' => (~wallet_unlocked /\ cached_mnemonic = None)'
    BY <1>1 DEF LockFlag, Ends
<1>5. ~mixed' => \A d \in Callers : Unmixed(d)'
    BY <1>1 DEF LockFlag, Ends
<1>6. ~mixed' /\ Quiet' => Agreed'
    BY <1>1 DEF LockFlag, Ends
<1> HIDE DEF Typed, StepsOK, HistoryOK, Alone, Unmixed, Agreed, Quiet
<1> QED
    BY <1>2, <1>3, <1>4, <1>5, <1>6

(* delete_wallet resets them and removes the file; it may fail to, and then   *)
(* puts nothing right.                                                      *)
LEMMA DeleteFlagStep ==
    ASSUME SessionInv, NEW c \in Callers, DeleteFlag(c)
    PROVE  SessionInv'
<1>1. CASE file' = None /\ cached_mnemonic' = None /\ PutsRight
    <2>1. /\ alone' \in BOOLEAN /\ mixed' \in BOOLEAN
          /\ alone' <=> alone
          /\ mixed' <=> mixed /\ ~alone
      /\ replaced' \in BOOLEAN /\ (replaced' <=> replaced /\ ~alone)
        BY <1>1 DEF PutsRight
    <2>2. Typed' /\ StepsOK' /\ HistoryOK'
        BY <1>1, <2>1 DEF DeleteFlag, Ends
    <2>3. /\ alone' => \A d \in Callers : Alone(d)'
          /\ alone' /\ autolock' => (~wallet_unlocked /\ cached_mnemonic = None)'
        BY <1>1, <2>1 DEF DeleteFlag, Ends
    <2>4. ~mixed' => \A d \in Callers : Unmixed(d)'
        BY <1>1, <2>1 DEF DeleteFlag, Ends
    <2>5. ~mixed' /\ Quiet' => Agreed'
        BY <1>1, <2>1 DEF DeleteFlag, Ends
    <2> HIDE DEF Typed, StepsOK, HistoryOK, Alone, Unmixed, Agreed, Quiet
    <2> QED
        BY <2>2, <2>3, <2>4, <2>5
<1>2. CASE file # None /\ UNCHANGED <<file, cached_mnemonic, history>>
    <2>1. Typed' /\ StepsOK' /\ HistoryOK'
        BY <1>2 DEF DeleteFlag, Ends
    <2>2. /\ alone' => \A d \in Callers : Alone(d)'
          /\ alone' /\ autolock' => (~wallet_unlocked /\ cached_mnemonic = None)'
        BY <1>2 DEF DeleteFlag, Ends
    <2>3. ~mixed' => \A d \in Callers : Unmixed(d)'
        BY <1>2 DEF DeleteFlag, Ends
    <2>4. ~mixed' /\ Quiet' => Agreed'
        BY <1>2 DEF DeleteFlag, Ends
    <2> HIDE DEF Typed, StepsOK, HistoryOK, Alone, Unmixed, Agreed, Quiet
    <2> QED
        BY <2>1, <2>2, <2>3, <2>4
<1> QED
    BY <1>1, <1>2 DEF DeleteFlag

(* The new node is stored. *)
LEMMA ReplaceNodeStep ==
    ASSUME SessionInv, NEW c \in Callers, ReplaceNode(c)
    PROVE  SessionInv'
<1>1. /\ alone' \in BOOLEAN /\ mixed' \in BOOLEAN
      /\ alone' <=> alone
      /\ mixed' <=> mixed /\ ~alone
      /\ replaced' \in BOOLEAN /\ (replaced' <=> replaced /\ ~alone)
    BY DEF ReplaceNode, Ends, PutsRight
<1>2. Typed' /\ StepsOK'
    BY <1>1 DEF ReplaceNode, Ends
<1>3. HistoryOK'
    BY <1>1 DEF ReplaceNode, Ends
<1>4. /\ alone' => \A d \in Callers : Alone(d)'
      /\ alone' /\ autolock' => (~wallet_unlocked /\ cached_mnemonic = None)'
    BY <1>1 DEF ReplaceNode, Ends
<1>5. ~mixed' => \A d \in Callers : Unmixed(d)'
    BY <1>1 DEF ReplaceNode, Ends
<1>6. ~mixed' /\ Quiet' => Agreed'
    BY <1>1 DEF ReplaceNode, Ends
<1> HIDE DEF Typed, StepsOK, HistoryOK, Alone, Unmixed, Agreed, Quiet
<1> QED
    BY <1>2, <1>3, <1>4, <1>5, <1>6

(* The timer locks the node. *)
LEMMA AutoLockNodeStep ==
    ASSUME SessionInv, AutoLockNode
    PROVE  SessionInv'
<1>1. /\ alone' \in BOOLEAN /\ mixed' \in BOOLEAN
      /\ alone' <=> alone
      /\ mixed' <=> mixed /\ ~alone
      /\ replaced' \in BOOLEAN /\ (replaced' <=> replaced /\ ~alone)
    BY DEF AutoLockNode, PutsRight
<1>2. Typed' /\ StepsOK'
    BY <1>1 DEF AutoLockNode
<1>3. HistoryOK'
    BY <1>1 DEF AutoLockNode
<1>4. /\ alone' => \A d \in Callers : Alone(d)'
      /\ alone' /\ autolock' => (~wallet_unlocked /\ cached_mnemonic = None)'
    BY <1>1 DEF AutoLockNode
<1>5. ~mixed' => \A d \in Callers : Unmixed(d)'
    BY <1>1 DEF AutoLockNode
<1>6. ~mixed' /\ Quiet' => Agreed'
    BY <1>1 DEF AutoLockNode
<1> HIDE DEF Typed, StepsOK, HistoryOK, Alone, Unmixed, Agreed, Quiet
<1> QED
    BY <1>2, <1>3, <1>4, <1>5, <1>6

(* Activity, time and restarts; nothing at all. *)
LEMMA IdleStep ==
    ASSUME SessionInv, record_activity \/ TimeOut \/ Restart \/ UNCHANGED vars
    PROVE  SessionInv'
<1>1. CASE record_activity
    BY <1>1 DEF record_activity
<1>2. CASE TimeOut
    BY <1>2 DEF TimeOut
<1>3. CASE Restart
    BY <1>3 DEF Restart
<1>4. CASE UNCHANGED vars
    BY <1>4 DEF vars
<1> QED
    BY <1>1, <1>2, <1>3, <1>4

HIDE SessionAssumption DEF SessionInv, Typed, StepsOK, HistoryOK, Alone, Unmixed, Agreed,
    CacheOK, NodeOK, FlagOK, Quiet, AtMostOne, Done, Unlocked, NodeLockWallet, manager, history, Steps,
    None, Torn, NoNode, Locked

(* The initial state satisfies it. *)
LEMMA SessionInvInit == Init => SessionInv
<1> SUFFICES ASSUME Init
             PROVE  SessionInv
    OBVIOUS
<1> USE SessionAssumption DEF Init, Done, None, Torn, NoNode, Locked
<1>1. Typed
    BY DEF Typed, Steps
<1>2. StepsOK /\ AtMostOne
    BY DEF StepsOK, AtMostOne
<1>3. HistoryOK
    BY <1>2 DEF HistoryOK
<1>4. \A c \in Callers : command[c].step = "done"
    OBVIOUS
<1>5. ~Unlocked /\ Agreed
    BY DEF Unlocked, Agreed, FlagOK, NodeOK, CacheOK
<1>6. \A c \in Callers : Alone(c) /\ Unmixed(c)
    BY <1>4 DEF Alone, Unmixed
<1>7. ~autolock
    OBVIOUS
<1> QED
    BY <1>1, <1>2, <1>3, <1>5, <1>6, <1>7 DEF SessionInv

(* Every step preserves it. *)
LEMMA SessionInvStep == SessionInv /\ [Next]_vars => SessionInv'
<1> SUFFICES ASSUME SessionInv, [Next]_vars
             PROVE  SessionInv'
    OBVIOUS
<1>1. CASE \E m \in Mnemonics : SaveWallet(m)
    BY <1>1, SaveWalletStep
<1>2. CASE SaveTorn \/ ReadMnemonic \/ check_auto_lock \/ AutoLockNode
    BY <1>2, SaveTornStep, ReadMnemonicStep, CheckAutoLockStep, AutoLockNodeStep
<1>3. ASSUME NEW c \in Callers, Start(c)
      PROVE  SessionInv'
    BY <1>3, UnlockDecryptStep, LockNodeStep, DeleteNodeStep, DeleteIdentityNodeStep,
       ResetSessionStep DEF Start
<1>4. ASSUME NEW c \in Callers, Continue(c)
      PROVE  SessionInv'
    BY <1>4, UnlockNodeStep, UnlockNodeFailsStep, UnlockFlagStep, LockFlagStep, DeleteFlagStep,
       ReplaceNodeStep DEF Continue
<1>5. CASE record_activity \/ TimeOut \/ Restart \/ UNCHANGED vars
    BY <1>5, IdleStep
<1> QED
    BY <1>1, <1>2, <1>3, <1>4, <1>5 DEF Next

(* No step exceeds the bound on commands in flight. *)
LEMMA BoundStep ==
    ASSUME SessionInv, SessionInv', InFlight <= MaxInFlight, [Next]_vars
    PROVE  InFlight' <= MaxInFlight
<1>0. /\ autolock \in BOOLEAN /\ autolock' \in BOOLEAN
      /\ command \in [Callers -> [step : Steps, mnemonic : Mnemonics \cup {None}]]
    BY DEF SessionInv, Typed
<1> DEFINE n == Cardinality(Busy(command))
           m == Cardinality(Busy(command'))
<1>a. n \in Nat /\ m \in Nat /\ MaxInFlight \in Nat
    BY BusyFinite, SessionAssumption
<1>b. InFlight = n + (IF autolock THEN 1 ELSE 0)
    BY <1>0, InFlightIs
<1>c. InFlight' = m + (IF autolock' THEN 1 ELSE 0)
    BY <1>0, InFlightIsNext
<1>d. CASE UNCHANGED <<command, autolock>>
    BY <1>d, <1>b, <1>c
<1>e. CASE m = n + 1 /\ MayStart /\ autolock' = autolock
    BY <1>0, <1>a, <1>b, <1>c, <1>e DEF MayStart
<1>f. CASE m <= n /\ (autolock' => autolock)
    BY <1>0, <1>a, <1>b, <1>c, <1>f
<1>1. CASE \E p \in Mnemonics : SaveWallet(p)
    BY <1>1, <1>d DEF SaveWallet
<1>2. CASE SaveTorn \/ ReadMnemonic \/ record_activity \/ TimeOut \/ UNCHANGED vars
    BY <1>2, <1>d DEF SaveTorn, ReadMnemonic, record_activity, TimeOut, vars
<1>3. CASE check_auto_lock
    BY <1>3, <1>0, <1>a, <1>b, <1>c DEF check_auto_lock, MayStart
<1>4. CASE AutoLockNode
    BY <1>4, <1>a, <1>f DEF AutoLockNode
<1>5. CASE Restart
    <2>1. Busy(command') = {}
        BY <1>5 DEF Restart, Busy
    <2>2. m = 0
        BY <2>1, FS_EmptySet
    <2> HIDE DEF m
    <2> QED
        BY <1>5, <1>a, <1>c, <2>2 DEF Restart
<1>6. ASSUME NEW c \in Callers, Start(c)
      PROVE  InFlight' <= MaxInFlight
    <2>1. PICK x : command' = [command EXCEPT ![c] = x] /\ command[c] = Done /\ x # Done
                   /\ MayStart /\ autolock' = autolock
        BY <1>6 DEF Start, UnlockDecrypt, LockNode, DeleteNode, DeleteIdentityNode, ResetSession,
           Starts, Done
    <2>2. m = n + 1
        BY <1>0, <2>1, BusyBegins
    <2> QED
        BY <2>1, <2>2, <1>e
<1>7. ASSUME NEW c \in Callers, Continue(c)
      PROVE  InFlight' <= MaxInFlight
    <2>1. PICK x : command' = [command EXCEPT ![c] = x] /\ command[c] # Done /\ autolock' = autolock
        BY <1>7 DEF Continue, UnlockNode, UnlockNodeFails, UnlockFlag, LockFlag, DeleteFlag,
           ReplaceNode, Ends, Done
    <2>2. m <= n
        BY <1>0, <2>1, BusyContinues
    <2> QED
        BY <2>1, <2>2, <1>f
<1> QED
    BY <1>1, <1>2, <1>3, <1>4, <1>5, <1>6, <1>7 DEF Next

-----------------------------------------------------------------------------
(* The session's invariant and its consequences.                            *)

(* The inductive invariant holds, and no more than MaxInFlight commands of the *)
(* front end and the timer are ever between two critical sections.             *)
THEOREM SessionInvariant == Spec => [](SessionInv /\ InFlight <= MaxInFlight)
<1>1. Init => InFlight <= MaxInFlight
    <2> SUFFICES ASSUME Init PROVE InFlight <= MaxInFlight
        OBVIOUS
    <2>1. autolock \in BOOLEAN /\ Quiet
        BY DEF Init, Quiet
    <2> QED
        BY <2>1, AtRestIsQuiet, SessionAssumption
<1>2. SessionInv /\ InFlight <= MaxInFlight /\ [Next]_vars
      => SessionInv' /\ (InFlight <= MaxInFlight)'
    BY SessionInvStep, BoundStep, SessionAssumption
<1> QED
    BY <1>1, <1>2, SessionInvInit, PTL DEF Spec

(* Between commands the flag that the auto-lock and the front end go by tells *)
(* whether the node is unlocked, for any number of callers: overlapping       *)
(* commands can falsify it only until one of those that reset both sides runs *)
(* by itself.                                                                 *)
THEOREM FlagIsTrue == Spec => []FlagTellsNode
<1>1. SessionInv => FlagTellsNode
    <2> SUFFICES ASSUME SessionInv, AtRest, ~mixed
                 PROVE  wallet_unlocked <=> Unlocked
        BY DEF FlagTellsNode
    <2>1. Quiet
        BY AtRestIsQuiet DEF AtRest, SessionInv, Typed
    <2> QED
        BY <2>1 DEF SessionInv, Agreed, FlagOK
<1> QED
    BY <1>1, SessionInvariant, PTL

(* Between commands an unlocked node runs the stored wallet and the cache     *)
(* holds its phrase or none, over deletions, torn files and restarts, unless  *)
(* the file was written over while a phrase was in use and nothing has locked *)
(* the session since.                                                         *)
THEOREM SessionIsStored == Spec => []SessionIsStoredWallet
<1>1. SessionInv /\ InFlight <= MaxInFlight => SessionIsStoredWallet
    <2> SUFFICES ASSUME SessionInv, InFlight <= MaxInFlight
                 PROVE  SessionIsStoredWallet
        OBVIOUS
    <2>1. TypeOK
        BY DEF SessionInv, Typed, TypeOK
    <2>2. AtRest => Quiet
        BY AtRestIsQuiet DEF AtRest, SessionInv, Typed
    <2> QED
        BY <2>1, <2>2 DEF SessionInv, Agreed, NodeOK, CacheOK, SessionIsStoredWallet
<1> QED
    BY <1>1, SessionInvariant, PTL
-----------------------------------------------------------------------------
(* Payments: the inductive invariant.                                       *)

Flows == {"liquid_to_lightning", "lightning_to_liquid", "bitcoin_to_liquid",
          "liquid_to_bitcoin"}
Asked == [kind : {"submarine", "reverse", "chain"}, from : {"BTC", "L-BTC"},
          to : {"BTC", "L-BTC"}, msat : Nat]
ServiceSwap == [net : Networks, asked : Asked, status : Nat]
Record == [id : Nat, flow : Flows, amount : Nat, network : Networks, status : Nat]

\* What RecordMatchesService says of one record, of a service that holds sv.
Matches(record, sv) ==
    /\ record.id \in DOMAIN sv
    /\ record.flow = FlowOf(sv[record.id].asked)
    /\ record.network = sv[record.id].net
    /\ 1000 * record.amount >= sv[record.id].asked.msat
    /\ record.status <= sv[record.id].status

\* A list of records, in memory or in the file.
NamesOnce(list) == \A j, k \in DOMAIN list : list[j].id = list[k].id => j = k
ListOK(list, sv) ==
    /\ list \in Seq(Record) /\ NamesOnce(list)
    /\ \A k \in DOMAIN list : Matches(list[k], sv)

\* What a command carries from one step to the next.
CommandOK(w, sv) ==
    \/ w = Idle
    \/ w \in [pc : {"post"}, request : Requests, net : Networks]
    \/ w \in [pc : {"save"}, swap : Record] /\ Matches(w.swap, sv)
    \/ w \in [pc : {"ask"}, id : Nat, net : Networks] /\ w.id \in DOMAIN sv
    \/ /\ w \in [pc : {"update"}, id : Nat, status : Nat]
       /\ w.id \in DOMAIN sv /\ w.status <= sv[w.id].status

CommandsOK ==
    /\ cmds = [c \in Commands |-> cmds[c]]
    /\ \A c \in Commands : CommandOK(cmds[c], service)

PaymentsInv ==
    /\ network \in Networks \union {Unset}
    /\ config \in Networks \union {Unset, "torn"}
    /\ service \in Seq(ServiceSwap)
    /\ ListOK(swaps, service)
    /\ state_file = [parses |-> state_file.parses, swaps |-> state_file.swaps]
    /\ state_file.parses \in BOOLEAN /\ ListOK(state_file.swaps, service)
    /\ CommandsOK
    /\ written \in BOOLEAN
    /\ written => swaps = load_local_state
    /\ NoSwapForgotten

-----------------------------------------------------------------------------
(* The list of records.                                                     *)

(* In a list that names each swap once, the search finds the record. *)
LEMMA Found ==
    ASSUME NEW list \in Seq(Record), NamesOnce(list), NEW id \in IdsOf(list)
    PROVE  LET k == SelectInSeq(list, LAMBDA s : s.id = id)
           IN  k \in DOMAIN list /\ list[k].id = id
<1>1. PICK k \in DOMAIN list : list[k].id = id
    BY DEF IdsOf
<1>2. {i \in 1 .. Len(list) : list[i].id = id} = {k}
    BY <1>1 DEF NamesOnce
<1>3. Min({k}) = k
    BY <1>1 DEF Min
<1>4. SelectInSeq(list, LAMBDA s : s.id = id) = k
    BY <1>2, <1>3 DEF SelectInSeq
<1> QED
    BY <1>1, <1>4

(* upsert_payment_swap keeps every record of another swap, ends with this   *)
(* one's, and names no swap twice.                                          *)
LEMMA UpsertedList ==
    ASSUME NEW list \in Seq(Record), NamesOnce(list), NEW swap \in Record
    PROVE  /\ Upserted(list, swap) \in Seq(Record)
           /\ NamesOnce(Upserted(list, swap))
           /\ IdsOf(Upserted(list, swap)) = IdsOf(list) \union {swap.id}
           /\ \A k \in DOMAIN Upserted(list, swap) :
                \/ Upserted(list, swap)[k] = swap
                \/ \E j \in DOMAIN list : Upserted(list, swap)[k] = list[j]
<1>1. CASE swap.id \in IdsOf(list)
    <2> DEFINE k == SelectInSeq(list, LAMBDA s : s.id = swap.id)
    <2>1. k \in DOMAIN list /\ list[k].id = swap.id
        BY <1>1, Found
    <2>2. Upserted(list, swap) = [list EXCEPT ![k] = swap]
        BY <1>1 DEF Upserted
    <2> HIDE DEF k
    <2>3. NamesOnce(Upserted(list, swap))
        BY <2>1, <2>2 DEF NamesOnce
    <2>4. IdsOf(Upserted(list, swap)) = IdsOf(list) \union {swap.id}
        BY <2>1, <2>2 DEF IdsOf
    <2>5. [list EXCEPT ![k] = swap] \in Seq(Record)
        BY <2>1
    <2>6. \A j \in DOMAIN list : [list EXCEPT ![k] = swap][j] \in {swap, list[j]}
        BY <2>1
    <2> QED
        BY <2>2, <2>3, <2>4, <2>5, <2>6
<1>2. CASE swap.id \notin IdsOf(list)
    <2>1. Upserted(list, swap) = Append(list, swap)
        BY <1>2 DEF Upserted
    <2>2. NamesOnce(Append(list, swap))
        BY <1>2 DEF NamesOnce, IdsOf
    <2>3. IdsOf(Append(list, swap)) = IdsOf(list) \union {swap.id}
        <3>1. DOMAIN Append(list, swap) = DOMAIN list \union {Len(list) + 1}
            OBVIOUS
        <3>2. \A k \in DOMAIN list : Append(list, swap)[k] = list[k]
            OBVIOUS
        <3>3. Append(list, swap)[Len(list) + 1] = swap
            OBVIOUS
        <3> QED
            BY <3>1, <3>2, <3>3 DEF IdsOf
    <2> QED
        BY <2>1, <2>2, <2>3
<1> QED
    BY <1>1, <1>2

(* A list that names each swap once has as many ids as records. *)
LEMMA OneIdEach ==
    ASSUME NEW list \in Seq(Record), NamesOnce(list)
    PROVE  Cardinality(IdsOf(list)) = Len(list)
<1> DEFINE f == [k \in 1 .. Len(list) |-> list[k].id]
<1>1. f \in Bijection(1 .. Len(list), IdsOf(list))
    <2>1. f \in [1 .. Len(list) -> IdsOf(list)]
        BY DEF IdsOf
    <2>2. \A j, k \in 1 .. Len(list) : f[j] = f[k] => j = k
        BY DEF NamesOnce
    <2>3. \A x \in IdsOf(list) : \E k \in 1 .. Len(list) : f[k] = x
        BY DEF IdsOf
    <2> HIDE DEF f
    <2> QED
        BY <2>1, <2>2, <2>3 DEF Bijection, Injection, Surjection, IsInjective
<1>2. ExistsBijection(1 .. Len(list), IdsOf(list))
    BY <1>1 DEF ExistsBijection
<1>3. Len(list) \in Nat
    OBVIOUS
<1> QED
    BY <1>2, <1>3, FS_CountingElements

-----------------------------------------------------------------------------
(* What the application keeps of a swap is what it asks the service for.    *)
LEMMA CreationMatches ==
    ASSUME NEW request \in Requests, NEW made \in Creation(request)
    PROVE  /\ made.flow \in Flows /\ made.amount \in Nat /\ made.asked \in Asked
           /\ made.flow = FlowOf(made.asked)
           /\ 1000 * made.amount >= made.asked.msat
<1>1. request.amount \in Nat
    BY PaymentsAssumption
<1>2. CASE request.command = "pay_lightning_invoice"
    <2>1. made \in create_submarine_swap(request.amount)
        BY <1>2 DEF Creation
    <2> QED
        BY <1>1, <2>1 DEF create_submarine_swap, parse_invoice_amount_sat, Made, FlowOf, Flows, Asked
<1>3. CASE request.command = "create_lightning_receive"
    <2>1. made \in create_lightning_receive(request.amount)
        BY <1>3 DEF Creation
    <2> QED
        BY <1>1, <2>1 DEF create_lightning_receive, Made, FlowOf, Flows, Asked
<1>4. CASE request.command = "create_bitcoin_receive"
    <2>1. made \in create_chain_swap_btc_to_lbtc(request.amount)
        BY <1>4 DEF Creation
    <2> QED
        BY <1>1, <2>1 DEF create_chain_swap_btc_to_lbtc, Made, FlowOf, Flows, Asked
<1>5. CASE request.command = "create_bitcoin_send"
    <2>1. made \in create_chain_swap_lbtc_to_btc(request.amount)
        BY <1>5 DEF Creation
    <2> QED
        BY <1>1, <2>1 DEF create_chain_swap_lbtc_to_btc, Made, FlowOf, Flows, Asked
<1> QED
    BY <1>2, <1>3, <1>4, <1>5, PaymentsAssumption

-----------------------------------------------------------------------------
(* The steps.                                                               *)

\* A swap is created at the service or makes progress there.
Grows(sv, after) ==
    /\ sv \in Seq(ServiceSwap) /\ after \in Seq(ServiceSwap) /\ Len(sv) <= Len(after)
    /\ \A id \in DOMAIN sv : /\ after[id].net = sv[id].net
                             /\ after[id].asked = sv[id].asked
                             /\ after[id].status >= sv[id].status

(* The service's swaps are typed. *)
LEMMA SwapAt ==
    ASSUME NEW sv \in Seq(ServiceSwap), NEW id \in DOMAIN sv
    PROVE  /\ sv[id] \in ServiceSwap /\ sv[id].status \in Nat
           /\ sv[id].asked \in Asked /\ sv[id].net \in Networks
<1>1. sv[id] \in ServiceSwap
    OBVIOUS
<1> QED
    BY <1>1 DEF ServiceSwap

(* A record that matches the service still does when the service grows. *)
LEMMA MatchesGrow ==
    ASSUME NEW sv, NEW after, Grows(sv, after), NEW record \in Record, Matches(record, sv)
    PROVE  Matches(record, after)
<1>1. record.id \in DOMAIN sv /\ record.id \in DOMAIN after
    BY DEF Matches, Grows
<1>2. record.status \in Nat /\ sv[record.id].status \in Nat /\ after[record.id].status \in Nat
    BY <1>1, SwapAt DEF Record, Grows
<1>3. record.status <= after[record.id].status
    BY <1>1, <1>2 DEF Matches, Grows
<1> QED
    BY <1>1, <1>3 DEF Matches, Grows

(* So does a list. *)
LEMMA ListsGrow ==
    ASSUME NEW sv, NEW after, Grows(sv, after), NEW list, ListOK(list, sv)
    PROVE  ListOK(list, after)
<1>1. \A k \in DOMAIN list : list[k] \in Record
    BY DEF ListOK
<1> QED
    BY <1>1, MatchesGrow DEF ListOK

(* So does what a command carries. *)
LEMMA CommandsGrow ==
    ASSUME NEW sv, NEW after, Grows(sv, after), NEW w, CommandOK(w, sv)
    PROVE  CommandOK(w, after)
<1>1. CASE w \in [pc : {"save"}, swap : Record] /\ Matches(w.swap, sv)
    BY <1>1, MatchesGrow DEF CommandOK
<1>2. CASE w \in [pc : {"ask"}, id : Nat, net : Networks] /\ w.id \in DOMAIN sv
    BY <1>2 DEF CommandOK, Grows
<1>3. CASE /\ w \in [pc : {"update"}, id : Nat, status : Nat]
           /\ w.id \in DOMAIN sv /\ w.status <= sv[w.id].status
    <2>1. w.id \in DOMAIN after /\ w.status \in Nat
          /\ sv[w.id].status \in Nat /\ after[w.id].status \in Nat
        BY <1>3, SwapAt DEF Grows
    <2>2. w.status <= after[w.id].status
        BY <1>3, <2>1 DEF Grows
    <2> QED
        BY <1>3, <2>1, <2>2 DEF CommandOK
<1> QED
    BY <1>1, <1>2, <1>3 DEF CommandOK

(* A step that leaves the service alone. *)
LEMMA ServiceSame ==
    ASSUME PaymentsInv, UNCHANGED service
    PROVE  Grows(service, service')
<1>1. service \in Seq(ServiceSwap)
    BY DEF PaymentsInv
<1>2. \A id \in DOMAIN service : service[id].status \in Nat
    BY <1>1, SwapAt
<1> QED
    BY <1>1, <1>2 DEF Grows

(* One command moves on and the service stays or grows. *)
LEMMA OneMoves ==
    ASSUME PaymentsInv, Grows(service, service'), NEW c \in Commands, NEW w,
           cmds' = [cmds EXCEPT ![c] = w], CommandOK(w, service')
    PROVE  CommandsOK'
<1>1. cmds' = [d \in Commands |-> IF d = c THEN w ELSE cmds[d]]
    BY DEF PaymentsInv, CommandsOK
<1>2. \A d \in Commands : CommandOK(cmds[d], service')
    BY CommandsGrow DEF PaymentsInv, CommandsOK
<1> QED
    BY <1>1, <1>2 DEF CommandsOK

(* No command moves. *)
LEMMA NoneMoves ==
    ASSUME PaymentsInv, Grows(service, service'), UNCHANGED cmds
    PROVE  CommandsOK'
BY CommandsGrow DEF PaymentsInv, CommandsOK

(* A step that leaves the list, the file and the history alone. *)
LEMMA RecordsSame ==
    ASSUME PaymentsInv, Grows(service, service'), CommandsOK', UNCHANGED <<swaps, state_file, paymentsHistory>>,
           network' \in Networks \union {Unset}, config' \in Networks \union {Unset, "torn"}
    PROVE  PaymentsInv'
<1>1. ListOK(swaps', service') /\ ListOK(state_file'.swaps, service')
    BY ListsGrow DEF PaymentsInv, paymentsHistory
<1>2. NoSwapForgotten' /\ load_local_state' = load_local_state
    BY DEF PaymentsInv, paymentsHistory, NoSwapForgotten, load_local_state
<1> QED
    BY <1>1, <1>2 DEF PaymentsInv, Grows, paymentsHistory

(* Selecting the network. *)
LEMMA SetNetworkStep ==
    ASSUME PaymentsInv, NEW n \in Networks, set_network(n)
    PROVE  PaymentsInv'
<1>1. Grows(service, service')
    BY ServiceSame DEF set_network
<1>2. CommandsOK'
    BY <1>1, NoneMoves DEF set_network
<1> QED
    BY <1>1, <1>2, RecordsSame DEF set_network, PaymentsInv

(* A restart reads back the file; what the file lost is excused. *)
LEMMA RestartStep ==
    ASSUME PaymentsInv, RestartApp
    PROVE  PaymentsInv'
<1>1. Grows(service, service')
    BY ServiceSame DEF RestartApp
<1>2. CommandsOK'
    BY DEF RestartApp, CommandsOK, CommandOK
<1>3. ListOK(state_file'.swaps, service') /\ ListOK(swaps', service')
    <2>1. ListOK(state_file'.swaps, service')
        BY <1>1, ListsGrow DEF PaymentsInv, RestartApp
    <2>2. ListOK(<<>>, service')
        BY DEF ListOK, NamesOnce
    <2> QED
        BY <2>1, <2>2 DEF RestartApp, load_local_state
<1>4. swaps' = load_local_state'
    BY DEF RestartApp, load_local_state
<1>5. NoSwapForgotten'
    BY DEF PaymentsInv, RestartApp, NoSwapForgotten
<1>6. network' \in Networks \union {Unset} /\ config' \in Networks \union {Unset, "torn"}
    BY PaymentsAssumption DEF PaymentsInv, RestartApp, load_network_config
<1> QED
    BY <1>2, <1>3, <1>4, <1>5, <1>6 DEF PaymentsInv, RestartApp

(* Steps that change only what one command carries. *)
LEMMA CommandStep ==
    ASSUME PaymentsInv, NEW c \in Commands,
           \/ \E request \in Requests : ReadKeyAndNetwork(c, request)
           \/ Refused(c) \/ AnswerLost(c) \/ get_swap_status(c)
           \/ \E id \in Ids : RefreshNetwork(c, id)
    PROVE  PaymentsInv'
<1>0. Grows(service, service') /\ UNCHANGED <<service, swaps, state_file, paymentsHistory, network, config>>
    BY ServiceSame DEF ReadKeyAndNetwork, Refused, AnswerLost, get_swap_status, RefreshNetwork,
       Same, appVars
<1>1. ASSUME NEW request \in Requests, ReadKeyAndNetwork(c, request)
      PROVE  CommandsOK'
    <2>1. network \in Networks
        BY <1>1 DEF PaymentsInv, ReadKeyAndNetwork
    <2> QED
        BY <1>0, <1>1, <2>1, OneMoves DEF ReadKeyAndNetwork, CommandOK
<1>2. ASSUME Refused(c) \/ AnswerLost(c)
      PROVE  CommandsOK'
    BY <1>0, <1>2, OneMoves DEF Refused, AnswerLost, CommandOK
<1>3. ASSUME get_swap_status(c)
      PROVE  CommandsOK'
    <2> DEFINE id == cmds[c].id
               w == [pc |-> "update", id |-> id, status |-> service[id].status]
    <2>1. id \in DOMAIN service /\ service \in Seq(ServiceSwap)
        BY <1>3 DEF get_swap_status, PaymentsInv, CommandsOK, CommandOK, Idle
    <2>2. service[id].status \in Nat /\ id \in Nat
        BY <2>1, SwapAt
    <2>3. CommandOK(Idle, service') /\ CommandOK(w, service')
        BY <1>0, <2>1, <2>2 DEF CommandOK
    <2> QED
        BY <1>0, <1>3, <2>3, OneMoves DEF get_swap_status
<1>4. ASSUME NEW id \in Ids, RefreshNetwork(c, id)
      PROVE  CommandsOK'
    <2>1. network \in Networks /\ id \in DOMAIN service /\ id \in Nat
        BY <1>4 DEF PaymentsInv, RefreshNetwork, ListOK, Matches, IdsOf, Ids
    <2> QED
        BY <1>0, <1>4, <2>1, OneMoves DEF RefreshNetwork, CommandOK
<1> QED
    BY <1>0, <1>1, <1>2, <1>3, <1>4, RecordsSame DEF PaymentsInv

(* The service creates the swap; the command holds its record. *)
LEMMA CreateSwapStep ==
    ASSUME PaymentsInv, NEW c \in Commands, CreateSwap(c)
    PROVE  PaymentsInv'
<1> DEFINE w == cmds[c]
           id == Len(service) + 1
<1>1. w.request \in Requests /\ w.net \in Networks
    BY DEF PaymentsInv, CommandsOK, CommandOK, CreateSwap, Idle
<1>2. PICK made \in Creation(w.request) :
        /\ service' = Append(service, [net |-> w.net, asked |-> made.asked, status |-> 0])
        /\ cmds' = [cmds EXCEPT ![c] =
              [pc |-> "save",
               swap |-> [id |-> id, flow |-> made.flow, amount |-> made.amount,
                         network |-> w.net, status |-> 0]]]
    BY DEF CreateSwap
<1> DEFINE new == [net |-> w.net, asked |-> made.asked, status |-> 0]
           record == [id |-> id, flow |-> made.flow, amount |-> made.amount,
                      network |-> w.net, status |-> 0]
<1>3. /\ made.flow \in Flows /\ made.amount \in Nat /\ made.asked \in Asked
      /\ made.flow = FlowOf(made.asked) /\ 1000 * made.amount >= made.asked.msat
    BY <1>1, CreationMatches
<1>4. service' = Append(service, new) /\ service \in Seq(ServiceSwap) /\ id \in Nat
    BY <1>2 DEF PaymentsInv
<1>5. new \in ServiceSwap /\ record \in Record
    BY <1>1, <1>3, <1>4 DEF ServiceSwap, Record
<1>6. Grows(service, service')
    <2>1. \A k \in DOMAIN service : service[k].status \in Nat
        BY <1>4, SwapAt
    <2> HIDE DEF new
    <2> QED
        BY <1>4, <1>5, <2>1 DEF Grows
<1>7. Matches(record, service')
    <2>1. id \in DOMAIN service' /\ service'[id] = new
        <3> HIDE DEF new
        <3> QED
            BY <1>4, <1>5
    <2> QED
        BY <1>1, <1>3, <2>1 DEF Matches
<1>8. CommandOK([pc |-> "save", swap |-> record], service')
    <2> HIDE DEF record
    <2> QED
        BY <1>5, <1>7 DEF CommandOK
<1>9. CommandsOK'
    BY <1>2, <1>6, <1>8, OneMoves
<1>10. UNCHANGED <<swaps, state_file, paymentsHistory, network, config>>
    BY DEF CreateSwap, NotYetShown, appVars, paymentsHistory
<1> QED
    BY <1>6, <1>9, <1>10, RecordsSame DEF PaymentsInv

(* A record is put into the list and the list is written, completely or not. *)
LEMMA UpsertStep ==
    ASSUME PaymentsInv, NEW swap \in Record, Matches(swap, service), upsert_payment_swap(swap)
    PROVE  /\ ListOK(swaps', service) /\ ListOK(state_file'.swaps, service)
           /\ state_file' = [parses |-> state_file'.parses, swaps |-> state_file'.swaps]
           /\ state_file'.parses \in BOOLEAN /\ written' \in BOOLEAN
           /\ written' => swaps' = load_local_state'
           /\ IdsOf(swaps') = IdsOf(swaps) \union {swap.id}
<1>1. /\ swaps' \in Seq(Record) /\ NamesOnce(swaps')
      /\ IdsOf(swaps') = IdsOf(swaps) \union {swap.id}
      /\ \A k \in DOMAIN swaps' : swaps'[k] = swap \/ \E j \in DOMAIN swaps : swaps'[k] = swaps[j]
    BY UpsertedList DEF upsert_payment_swap, PaymentsInv, ListOK
<1>2. ListOK(swaps', service)
    BY <1>1 DEF ListOK, PaymentsInv
<1>3. ListOK(<<>>, service)
    BY DEF ListOK, NamesOnce
<1>4. CASE state_file' = [parses |-> TRUE, swaps |-> swaps'] /\ written' = TRUE
    BY <1>1, <1>2, <1>4 DEF load_local_state
<1>5. CASE state_file' = state_file /\ written' = FALSE
    BY <1>1, <1>2, <1>5 DEF PaymentsInv
<1>6. CASE state_file' = [parses |-> FALSE, swaps |-> <<>>] /\ written' = FALSE
    BY <1>1, <1>2, <1>3, <1>6
<1> QED
    BY <1>4, <1>5, <1>6 DEF upsert_payment_swap, save_local_state

(* What creating a swap ends with. *)
LEMMA RecordSwapStep ==
    ASSUME PaymentsInv, NEW c \in Commands, RecordSwap(c)
    PROVE  PaymentsInv'
<1>1. cmds[c].swap \in Record /\ Matches(cmds[c].swap, service)
    BY DEF PaymentsInv, CommandsOK, CommandOK, RecordSwap, Idle
<1>2. Grows(service, service') /\ CommandsOK'
    BY ServiceSame, OneMoves DEF RecordSwap, CommandOK
<1>3. upsert_payment_swap(cmds[c].swap)
    BY DEF RecordSwap
<1>4. NoSwapForgotten'
    BY <1>1, <1>3, UpsertStep DEF PaymentsInv, RecordSwap, NoSwapForgotten
<1> QED
    BY <1>1, <1>2, <1>3, <1>4, UpsertStep DEF PaymentsInv, RecordSwap

(* What refreshing a swap ends with. *)
LEMMA UpdateSwapStep ==
    ASSUME PaymentsInv, NEW c \in Commands, UpdateSwap(c)
    PROVE  PaymentsInv'
<1> DEFINE id == cmds[c].id
           existing == FindSwap(swaps, id)
           updated == [existing EXCEPT !.status = cmds[c].status]
<1>1. cmds[c].status \in Nat /\ id \in DOMAIN service /\ cmds[c].status <= service[id].status
    BY DEF PaymentsInv, CommandsOK, CommandOK, UpdateSwap, Idle
<1>2. Grows(service, service') /\ CommandsOK'
    BY ServiceSame, OneMoves DEF UpdateSwap, CommandOK
<1>3. CASE id \notin IdsOf(swaps)
    BY <1>2, <1>3, RecordsSame DEF UpdateSwap, PaymentsInv, paymentsHistory
<1>4. CASE id \in IdsOf(swaps)
    <2>1. existing \in Record /\ Matches(existing, service) /\ existing.id = id
        <3> DEFINE k == SelectInSeq(swaps, LAMBDA s : s.id = id)
        <3>1. swaps \in Seq(Record) /\ NamesOnce(swaps) /\ \A j \in DOMAIN swaps : Matches(swaps[j], service)
            BY DEF PaymentsInv, ListOK
        <3>2. k \in DOMAIN swaps /\ swaps[k].id = id
            BY <1>4, <3>1, Found
        <3>3. existing = swaps[k]
            BY DEF FindSwap
        <3> HIDE DEF k, existing
        <3> QED
            BY <3>1, <3>2, <3>3
    <2> HIDE DEF existing
    <2>2. updated \in Record /\ Matches(updated, service) /\ updated.id = id
        BY <1>1, <2>1 DEF Record, Matches
    <2>3. upsert_payment_swap(updated)
        BY <1>4 DEF UpdateSwap, existing
    <2> HIDE DEF updated
    <2>4. NoSwapForgotten'
        BY <2>2, <2>3, UpsertStep DEF PaymentsInv, UpdateSwap, NoSwapForgotten
    <2> QED
        BY <1>2, <2>2, <2>3, <2>4, UpsertStep DEF PaymentsInv, UpdateSwap
<1> QED
    BY <1>3, <1>4

(* The service's swap makes progress. *)
LEMMA SwapProgressStep ==
    ASSUME PaymentsInv, NEW id \in DOMAIN service, SwapProgress(id)
    PROVE  PaymentsInv'
<1>1. service \in Seq(ServiceSwap) /\ service[id] \in ServiceSwap
    BY SwapAt DEF PaymentsInv
<1>2. \A k \in DOMAIN service : service[k].status \in Nat
    BY <1>1, SwapAt
<1> DEFINE new == [service[id] EXCEPT !.status = @ + 1]
<1>3. service' = [service EXCEPT ![id] = new]
    BY DEF SwapProgress
<1>4. /\ new \in ServiceSwap /\ new.net = service[id].net /\ new.asked = service[id].asked
      /\ new.status >= service[id].status
    BY <1>1, <1>2 DEF ServiceSwap
<1> HIDE DEF new
<1>5. Grows(service, service')
    BY <1>1, <1>2, <1>3, <1>4 DEF Grows
<1>6. CommandsOK'
    BY <1>5, NoneMoves DEF SwapProgress
<1> QED
    BY <1>5, <1>6, RecordsSame DEF SwapProgress, Same, appVars, PaymentsInv

-----------------------------------------------------------------------------
(* The theorems.                                                            *)

(* The inductive invariant holds: every record, in memory, in the file or on *)
(* the way to them, is of a swap of the service, and the file holds the list *)
(* whenever its last write completed.                                        *)
THEOREM PaymentsInvariant == PaymentsSpec => []PaymentsInv
<1>1. PaymentsInit => PaymentsInv
    BY PaymentsAssumption DEF PaymentsInit, PaymentsInv, ListOK, NamesOnce, CommandsOK, CommandOK,
       load_local_state, NoSwapForgotten
<1>2. PaymentsInv /\ [PaymentsNext]_paymentsVars => PaymentsInv'
    <2> SUFFICES ASSUME PaymentsInv, [PaymentsNext]_paymentsVars
                 PROVE  PaymentsInv'
        OBVIOUS
    <2>1. CASE UNCHANGED paymentsVars
        <3>1. Grows(service, service')
            BY <2>1, ServiceSame DEF paymentsVars
        <3>2. CommandsOK'
            BY <2>1, <3>1, NoneMoves DEF paymentsVars
        <3> QED
            BY <2>1, <3>1, <3>2, RecordsSame DEF paymentsVars, paymentsHistory, PaymentsInv
    <2> QED
        BY <2>1, SetNetworkStep, RestartStep, CommandStep, CreateSwapStep, RecordSwapStep,
           UpdateSwapStep, SwapProgressStep DEF PaymentsNext
<1> QED
    BY <1>1, <1>2, PTL DEF PaymentsSpec

(* No swap that a command returned is forgotten, over restarts and whatever  *)
(* overlapping commands record, unless the last write before a restart did   *)
(* not complete.                                                             *)
THEOREM SwapsRemembered == PaymentsSpec => []NoSwapForgotten
BY PaymentsInvariant, PTL DEF PaymentsInv

(* Every record agrees with the service's swap of its id, although a status  *)
(* is read before other commands change the list.                            *)
THEOREM RecordsMatch == PaymentsSpec => []RecordMatchesService
<1>1. PaymentsInv => RecordMatchesService
    <2> SUFFICES ASSUME PaymentsInv
                 PROVE  RecordMatchesService
        OBVIOUS
    <2>1. \A k \in DOMAIN swaps : Matches(swaps[k], service)
        BY DEF PaymentsInv, ListOK
    <2>2. Cardinality(IdsOf(swaps)) = Len(swaps)
        BY OneIdEach DEF PaymentsInv, ListOK
    <2>3. PaymentsTypeOK
        BY <2>1, <2>2 DEF PaymentsInv, PaymentsTypeOK, IdsOf, Matches
    <2> QED
        BY <2>1, <2>3 DEF RecordMatchesService, Matches
<1> QED
    BY <1>1, PaymentsInvariant, PTL
=============================================================================
