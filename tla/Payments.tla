------------------------------- MODULE Payments -------------------------------
(***************************************************************************)
(* Swaps with the Boltz service and the application state that remembers    *)
(* them (src-tauri/src/lib.rs, state.rs, payments/boltz.rs).                *)
(*                                                                         *)
(* A command reads keys from the unlocked wallet and the selected network,  *)
(* asks the service to create the swap, records it under the state's mutex  *)
(* and only then returns it.  Each of these is a step of its own, commands  *)
(* overlap, and the process may stop between any two.  The record is one    *)
(* file, deadcat_state.json, rewritten in place; an error of the write is   *)
(* ignored, and a file that does not parse counts as empty.                 *)
(***************************************************************************)
EXTENDS Naturals, Sequences, SequencesExt, FiniteSetsExt

CONSTANTS
    Requests,      \* commands with their amounts: of the invoice in thousandths of
                   \* a satoshi (0 when it names none), else in satoshis
    MinSat, MaxSat,    \* the limits that the service states for a pair
    Networks,      \* "mainnet", "testnet", "regtest"
    Commands,      \* commands that may overlap
    MaxSwaps,      \* bound on swaps created at the service
    MaxStatus,     \* bound on status changes of a swap
    MaxCrashes     \* bound on restarts

ASSUME PaymentsAssumption ==
    /\ Requests \subseteq [command : {"pay_lightning_invoice", "create_lightning_receive",
                                     "create_bitcoin_receive", "create_bitcoin_send"},
                           amount : Nat]
    /\ MinSat \in Nat \ {0} /\ MaxSat \in Nat
    /\ "testnet" \in Networks
    /\ {MaxSwaps, MaxStatus, MaxCrashes} \subseteq Nat

Unset == "none"
Ids == 1 .. MaxSwaps

VARIABLES
    network,     \* AppStateManager.network, Unset when it is not selected
    config,      \* network_config.json: a network, Unset (no file) or "torn"
    swaps,       \* local_state.payment_swaps
    state_file,  \* deadcat_state.json: whether it parses, and what it holds
    service,     \* the service: swaps in the order they were created
    cmds,        \* commands under way
    crashes,
    shown,       \* history: swaps that were returned to the user
    written,     \* history: whether the last write of the file completed
    excused      \* history: swaps forgotten because it did not

appVars == <<network, config, swaps, state_file>>
paymentsHistory == <<shown, written, excused>>
paymentsVars == <<network, config, swaps, state_file, service, cmds, crashes,
                  shown, written, excused>>

Idle == [pc |-> "idle"]
IdsOf(list) == {list[k].id : k \in DOMAIN list}

-----------------------------------------------------------------------------
(* Application state (state.rs).                                            *)

Upserted(list, swap) ==
    IF swap.id \in IdsOf(list)
    THEN LET k == SelectInSeq(list, LAMBDA s : s.id = swap.id)
         IN  [list EXCEPT ![k] = swap]
    ELSE Append(list, swap)

\* The write completes, cannot open the file, or stops after it was cut.
save_local_state ==
    \/ state_file' = [parses |-> TRUE, swaps |-> swaps'] /\ written' = TRUE
    \/ state_file' = state_file /\ written' = FALSE
    \/ state_file' = [parses |-> FALSE, swaps |-> <<>>] /\ written' = FALSE

upsert_payment_swap(swap) ==
    /\ swaps' = Upserted(swaps, swap)
    /\ save_local_state

load_local_state == IF state_file.parses THEN state_file.swaps ELSE <<>>
load_network_config == IF config = "torn" THEN Unset ELSE config
is_first_launch == config = Unset

set_network(n) ==
    /\ config' \in {n, config, "torn"}
    /\ network' = n
    /\ UNCHANGED <<swaps, state_file, service, cmds, crashes, paymentsHistory>>

\* The process stops; AppStateManager::new and initialize on the next start.
RestartApp ==
    /\ crashes < MaxCrashes
    /\ crashes' = crashes + 1
    /\ swaps' = load_local_state
    /\ network' = IF is_first_launch THEN "testnet" ELSE load_network_config
    /\ config' \in IF is_first_launch THEN {"testnet", Unset, "torn"} ELSE {config}
    /\ cmds' = [c \in Commands |-> Idle]
    /\ excused' = IF written THEN excused ELSE excused \union (IdsOf(swaps) \ IdsOf(swaps'))
    /\ written' = TRUE
    /\ UNCHANGED <<state_file, service, shown>>

-----------------------------------------------------------------------------
(* Creating a swap: pay_lightning_invoice, create_lightning_receive,        *)
(* create_bitcoin_receive and create_bitcoin_send.                          *)

Same == UNCHANGED <<appVars, crashes, paymentsHistory>>

\* The keys are read from the unlocked wallet (module WalletSession), then the
\* network; without either nothing happens.  The keys depend on nothing that
\* changes here, so that reading them is part of the step.
ReadKeyAndNetwork(c, request) ==
    /\ cmds[c] = Idle /\ network # Unset
    /\ cmds' = [cmds EXCEPT ![c] = [pc |-> "post", request |-> request, net |-> network]]
    /\ UNCHANGED service /\ Same

\* Faulty: the swap is returned before it is recorded.
ShowsEarly(id) == shown' = shown \union {id}
NotYetShown(id) == shown' = shown

\* What the application asks of the service and keeps itself, if it does not
\* refuse: a submarine swap is for the invoice's amount rounded up, and only
\* lightning swaps are compared with the limits.
parse_invoice_amount_sat(msat) == (msat + 999) \div 1000
within(sat) == sat \in MinSat .. MaxSat
Made(flow, sat, kind, from, to, msat) ==
    [flow |-> flow, amount |-> sat,
     asked |-> [kind |-> kind, from |-> from, to |-> to, msat |-> msat]]

create_submarine_swap(msat) ==
    LET sat == parse_invoice_amount_sat(msat)
    IN  {x \in {Made("liquid_to_lightning", sat, "submarine", "L-BTC", "BTC", msat)} :
           msat # 0 /\ within(sat)}

create_lightning_receive(sat) ==
    {x \in {Made("lightning_to_liquid", sat, "reverse", "BTC", "L-BTC", 1000 * sat)} :
       sat # 0 /\ within(sat)}

create_chain_swap_btc_to_lbtc(sat) ==
    {x \in {Made("bitcoin_to_liquid", sat, "chain", "BTC", "L-BTC", 1000 * sat)} : sat # 0}

create_chain_swap_lbtc_to_btc(sat) ==
    {x \in {Made("liquid_to_bitcoin", sat, "chain", "L-BTC", "BTC", 1000 * sat)} : sat # 0}

Creation(request) ==
    CASE request.command = "pay_lightning_invoice"    -> create_submarine_swap(request.amount)
      [] request.command = "create_lightning_receive" -> create_lightning_receive(request.amount)
      [] request.command = "create_bitcoin_receive"   -> create_chain_swap_btc_to_lbtc(request.amount)
      [] request.command = "create_bitcoin_send"      -> create_chain_swap_lbtc_to_btc(request.amount)

\* post_swap_req, post_reverse_req, post_chain_req.
CreateSwap(c) ==
    LET w == cmds[c]
        id == Len(service) + 1
    IN  /\ w.pc = "post" /\ id <= MaxSwaps
        /\ \E made \in Creation(w.request) :
             /\ service' = Append(service, [net |-> w.net, asked |-> made.asked, status |-> 0])
             /\ cmds' = [cmds EXCEPT ![c] =
                   [pc |-> "save",
                    swap |-> [id |-> id, flow |-> made.flow, amount |-> made.amount,
                              network |-> w.net, status |-> 0]]]
        /\ NotYetShown(id)
        /\ UNCHANGED <<appVars, crashes, written, excused>>

\* No swap: the application refuses, the service has no such pair or refuses,
\* or a call fails.
Refused(c) ==
    /\ cmds[c].pc = "post"
    /\ cmds' = [cmds EXCEPT ![c] = Idle]
    /\ UNCHANGED service /\ Same

\* The answer is lost or does not check: the service has a swap that the
\* application never hears of.
AnswerLost(c) ==
    /\ cmds[c].pc = "save"
    /\ cmds' = [cmds EXCEPT ![c] = Idle]
    /\ UNCHANGED service /\ Same

RecordSwap(c) ==
    /\ cmds[c].pc = "save"
    /\ upsert_payment_swap(cmds[c].swap)
    /\ shown' = shown \union {cmds[c].swap.id}
    /\ cmds' = [cmds EXCEPT ![c] = Idle]
    /\ UNCHANGED <<network, config, service, crashes, excused>>

-----------------------------------------------------------------------------
(* refresh_payment_swap_status: the network selected now is asked, not the  *)
(* swap's own.                                                              *)

RefreshNetwork(c, id) ==
    /\ cmds[c] = Idle /\ network # Unset
    /\ id \in IdsOf(swaps)
    /\ cmds' = [cmds EXCEPT ![c] = [pc |-> "ask", id |-> id, net |-> network]]
    /\ UNCHANGED service /\ Same

\* The service of another network does not know the swap.
get_swap_status(c) ==
    /\ cmds[c].pc = "ask"
    /\ \/ /\ service[cmds[c].id].net = cmds[c].net
          /\ cmds' = [cmds EXCEPT ![c] =
                [pc |-> "update", id |-> cmds[c].id, status |-> service[cmds[c].id].status]]
       \/ cmds' = [cmds EXCEPT ![c] = Idle]
    /\ UNCHANGED service /\ Same

\* Faulty: the first entry is taken, whatever its id.
FindsFirst(list, id) == list[1]
FindSwap(list, id) == list[SelectInSeq(list, LAMBDA s : s.id = id)]

UpdateSwap(c) ==
    /\ cmds[c].pc = "update"
    /\ IF cmds[c].id \in IdsOf(swaps)
       THEN LET existing == FindSwap(swaps, cmds[c].id)
            IN  upsert_payment_swap([existing EXCEPT !.status = cmds[c].status])
       ELSE UNCHANGED <<swaps, state_file, written>>
    /\ cmds' = [cmds EXCEPT ![c] = Idle]
    /\ UNCHANGED <<network, config, service, crashes, shown, excused>>

\* What happens to a swap at the service.
SwapProgress(id) ==
    /\ service[id].status < MaxStatus
    /\ service' = [service EXCEPT ![id].status = @ + 1]
    /\ UNCHANGED cmds /\ Same

-----------------------------------------------------------------------------
\* First start: no files, the network is set to Testnet.
PaymentsInit ==
    /\ network = "testnet" /\ config = "testnet"
    /\ swaps = <<>>
    /\ state_file = [parses |-> FALSE, swaps |-> <<>>]
    /\ service = <<>>
    /\ cmds = [c \in Commands |-> Idle]
    /\ crashes = 0
    /\ shown = {} /\ written = TRUE /\ excused = {}

PaymentsNext ==
    \/ \E n \in Networks : set_network(n)
    \/ RestartApp
    \/ \E c \in Commands :
         \/ \E request \in Requests : ReadKeyAndNetwork(c, request)
         \/ CreateSwap(c) \/ Refused(c) \/ AnswerLost(c) \/ RecordSwap(c)
         \/ \E id \in Ids : RefreshNetwork(c, id)
         \/ get_swap_status(c) \/ UpdateSwap(c)
    \/ \E id \in DOMAIN service : SwapProgress(id)

PaymentsSpec == PaymentsInit /\ [][PaymentsNext]_paymentsVars

-----------------------------------------------------------------------------
\* Types, and: the list names each swap once.
PaymentsTypeOK ==
    /\ network \in Networks \union {Unset}
    /\ config \in Networks \union {Unset, "torn"}
    /\ IdsOf(swaps) \subseteq DOMAIN service
    /\ Cardinality(IdsOf(swaps)) = Len(swaps)

(***************************************************************************)
(* No swap is forgotten: what a command returned to the user stays in the   *)
(* list, over restarts and whatever overlapping commands record, unless the *)
(* last write before a restart did not complete.                            *)
(***************************************************************************)
NoSwapForgotten == shown \subseteq IdsOf(swaps) \union excused

(***************************************************************************)
(* A record is of the service's swap: kind, direction and network are those *)
(* that the service was asked for, its amount covers the invoice, and its   *)
(* status is one that this very swap has reached, although the status was   *)
(* read before other commands changed the list.  It need not be the latest: *)
(* of two overlapping refreshes the older status may be written last.       *)
(***************************************************************************)
FlowOf(asked) ==
    IF asked.kind = "chain"
    THEN IF asked.from = "BTC" THEN "bitcoin_to_liquid" ELSE "liquid_to_bitcoin"
    ELSE IF asked.kind = "reverse" THEN "lightning_to_liquid" ELSE "liquid_to_lightning"

RecordMatchesService ==
    /\ PaymentsTypeOK
    /\ \A k \in DOMAIN swaps :
        LET s == service[swaps[k].id]
        IN  /\ swaps[k].flow = FlowOf(s.asked) /\ swaps[k].network = s.net
            /\ 1000 * swaps[k].amount >= s.asked.msat
            /\ swaps[k].status <= s.status
=============================================================================
