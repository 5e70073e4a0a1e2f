------------------------------- MODULE Wallet -------------------------------
(***************************************************************************)
(* The demo wallet (src/demo/wallet/src/main.rs): an MCP server whose two  *)
(* tools, get_balance and transfer, are several requests each to an        *)
(* Ethereum node that mines blocks, moves funds and fails in between.      *)
(* Calls are handled concurrently.                                         *)
(*                                                                         *)
(* External: the node.  It keeps every block and the balances after it,    *)
(* and a pool of transactions, each with a hash of its own; a transaction  *)
(* is mined and moves its value, is mined and reverts, or is dropped.      *)
(* Blocks are final.  A block's hash is its height.                        *)
(***************************************************************************)
EXTENDS Integers, Sequences, FiniteSets

CONSTANTS
  CallIds,    \* the tool calls made
  Accounts,   \* addresses
  from,       \* the address of the wallet's key
  Malformed,  \* an address argument that does not parse
  Amounts,    \* `amount` arguments, in milli-ETH
  Opening,    \* the balance of every account in the first block, in wei
  Income,     \* wei that others may pay into an account in a block
  Fee,        \* wei a transaction of the wallet costs
  MILLI_ETH_WEI, \* wei in a milli-ETH
  I64Max,     \* the largest i64
  MaxHeight   \* bound: how many blocks there are

ASSUME FromIsAnAccount == from \in Accounts /\ Malformed \notin Accounts
ASSUME UnitIsPositive == MILLI_ETH_WEI \in Nat \ {0} /\ I64Max \in Nat
ASSUME WeiAreNumbers == {Opening, Income, Fee} \subseteq Nat /\ Amounts \subseteq Int
ASSUME HeightBound == MaxHeight \in Nat \ {0}

VARIABLES
  chain,   \* the blocks: [balances, txs], txs the hashes that moved their value
  pool,    \* transactions sent and not mined
  reverted,\* hash -> height of the transactions mined without effect
  dropped, \* transactions the node has forgotten
  pc,      \* where each tool call is
  req,     \* its arguments
  block,   \* the block get_balance has pinned
  answer,  \* its result
  txs      \* every transaction ever sent: [call, to, value], the hash its index

node  == <<chain, pool, reverted, dropped, txs>>
vars  == <<node, pc, req, block, answer>>

Height == Len(chain)
None   == [kind |-> "none"]

Init ==
  /\ chain = <<[balances |-> [a \in Accounts |-> Opening], txs |-> {}]>>
  /\ pool = {} /\ dropped = {} /\ txs = << >>
  /\ reverted = [h \in {} |-> 0]
  /\ pc = [c \in CallIds |-> "idle"]
  /\ req = [c \in CallIds |-> None]
  /\ block = [c \in CallIds |-> 0]
  /\ answer = [c \in CallIds |-> None]

-----------------------------------------------------------------------------
(* The node *)

\* The balances after a transaction of the wallet moved its value.
Moved(balances, h) ==
  [a \in Accounts |-> balances[a]
                        - (IF a = from THEN txs[h].value + Fee ELSE 0)
                        + (IF a = txs[h].to THEN txs[h].value ELSE 0)]

\* A block with at most one transaction of the wallet, or with somebody's payment.
Mine ==
  /\ Height < MaxHeight
  /\ LET tip == chain[Height].balances IN
     \/ \E h \in pool :
          /\ tip[from] >= txs[h].value + Fee
          /\ chain' = Append(chain, [balances |-> Moved(tip, h), txs |-> {h}])
          /\ pool' = pool \ {h}
          /\ UNCHANGED reverted
     \/ \E h \in pool :
          /\ tip[from] >= Fee
          /\ chain' = Append(chain, [balances |-> [tip EXCEPT ![from] = @ - Fee], txs |-> {}])
          /\ pool' = pool \ {h}
          /\ reverted' = [g \in DOMAIN reverted \cup {h} |->
                            IF g = h THEN Height + 1 ELSE reverted[g]]
     \/ \E a \in Accounts :
          /\ chain' = Append(chain, [balances |-> [tip EXCEPT ![a] = @ + Income], txs |-> {}])
          /\ UNCHANGED <<pool, reverted>>
  /\ UNCHANGED <<dropped, txs, pc, req, block, answer>>

Drop(h) ==
  /\ h \in pool
  /\ pool' = pool \ {h}
  /\ dropped' = dropped \cup {h}
  /\ UNCHANGED <<chain, reverted, txs, pc, req, block, answer>>

\* The height a transaction was mined at; 0 when it was not.
MinedAt(h) ==
  IF h \in DOMAIN reverted THEN reverted[h]
  ELSE IF \E n \in 1..Height : h \in chain[n].txs
  THEN CHOOSE n \in 1..Height : h \in chain[n].txs ELSE 0

-----------------------------------------------------------------------------
(* The tools *)

Goto(c, where, to) == pc[c] = where /\ pc' = [pc EXCEPT ![c] = to]

Respond(c, where, result) ==
  /\ Goto(c, where, "answered")
  /\ answer' = [answer EXCEPT ![c] = result]

failed == [kind |-> "failed"]
attested(value, at, reference) ==
  [kind |-> "attested", value |-> value, block |-> at, reference |-> reference]

\* call_tool dispatches; an unknown tool is a protocol error.
Dispatch(c, request) ==
  /\ pc[c] = "idle"
  /\ req' = [req EXCEPT ![c] = request]
  /\ \/ /\ request.tool \in {"get_balance", "transfer"}
        /\ Goto(c, "idle", "arguments")
        /\ UNCHANGED answer
     \/ /\ request.tool \notin {"get_balance", "transfer"}
        /\ Respond(c, "idle", [kind |-> "invalid_params"])
  /\ UNCHANGED <<node, block>>

\* The address parses, and an amount is a positive i64.
ArgumentsFit(request) ==
  /\ request.address \in Accounts
  /\ request.tool = "transfer" => request.amount > 0 /\ request.amount <= I64Max

CheckArguments(c) ==
  /\ pc[c] = "arguments"
  /\ \/ /\ ArgumentsFit(req[c])
        /\ Goto(c, "arguments", "chain_id")
        /\ UNCHANGED answer
     \/ ~ArgumentsFit(req[c]) /\ Respond(c, "arguments", failed)
  /\ UNCHANGED <<node, req, block>>

GetChainId(c) ==
  /\ \/ /\ Goto(c, "chain_id", IF req[c].tool = "transfer" THEN "send" ELSE "latest")
        /\ UNCHANGED answer
     \/ Respond(c, "chain_id", failed)
  /\ UNCHANGED <<node, req, block>>

GetLatestBlock(c) ==
  /\ \/ /\ Goto(c, "latest", "balance")
        /\ block' = [block EXCEPT ![c] = Height]
        /\ UNCHANGED answer
     \/ Respond(c, "latest", failed) /\ UNCHANGED block
  /\ UNCHANGED <<node, req>>

\* BalanceRead that reads the latest state.
LatestBalance(c) == chain[Height].balances[req[c].address]

\* get_balance by the hash of the pinned block.
BalanceRead(c) == chain[block[c]].balances[req[c].address]

\* Whole milli-ETH, saturated at i64::MAX.
eth_milli(wei) ==
  IF wei \div MILLI_ETH_WEI > I64Max THEN I64Max ELSE wei \div MILLI_ETH_WEI

GetBalance(c) ==
  /\ pc[c] = "balance"
  /\ \/ Respond(c, "balance", attested(eth_milli(BalanceRead(c)), block[c], block[c]))
     \/ Respond(c, "balance", failed)
  /\ UNCHANGED <<node, req, block>>

\* send_transaction: an error of the node's means that nothing was taken; the
\* connection can also fail after the node has taken the transaction.
SendTransaction(c) ==
  /\ pc[c] = "send"
  /\ LET tx == [call |-> c, to |-> req[c].address, value |-> req[c].amount * MILLI_ETH_WEI]
     IN  \/ /\ txs' = Append(txs, tx)
            /\ pool' = pool \cup {Len(txs) + 1}
            /\ \/ Goto(c, "send", "receipt") /\ UNCHANGED answer
               \/ Respond(c, "send", failed)
         \/ Respond(c, "send", failed) /\ UNCHANGED <<txs, pool>>
  /\ UNCHANGED <<chain, reverted, dropped, req, block>>

TxOf(c) == CHOOSE h \in DOMAIN txs : txs[h].call = c

\* GetReceipt that answers as soon as the transaction is sent.
GetReceiptUnmined(c) ==
  /\ pc[c] = "receipt"
  /\ \/ Respond(c, "receipt", attested(req[c].amount, Height, TxOf(c)))
     \/ Respond(c, "receipt", failed)
  /\ UNCHANGED <<node, req, block>>

\* GetReceipt that sends the transaction again when the wait fails.
GetReceiptOrRetry(c) ==
  /\ pc[c] = "receipt"
  /\ \/ /\ MinedAt(TxOf(c)) > 0
        /\ Respond(c, "receipt", attested(req[c].amount, MinedAt(TxOf(c)), TxOf(c)))
     \/ Goto(c, "receipt", "send") /\ UNCHANGED answer
  /\ UNCHANGED <<node, req, block>>

\* GetReceipt that waits for the receipt of a successful transaction only.
GetReceiptOfSuccess(c) ==
  /\ pc[c] = "receipt"
  /\ MinedAt(TxOf(c)) > 0 /\ TxOf(c) \notin DOMAIN reverted
  /\ Respond(c, "receipt", attested(req[c].amount, MinedAt(TxOf(c)), TxOf(c)))
  /\ UNCHANGED <<node, req, block>>

\* get_receipt waits until the transaction is mined, without a timeout, or fails;
\* the receipt's status is not read.
GetReceipt(c) ==
  /\ pc[c] = "receipt"
  /\ \/ /\ MinedAt(TxOf(c)) > 0
        /\ Respond(c, "receipt", attested(req[c].amount, MinedAt(TxOf(c)), TxOf(c)))
     \/ Respond(c, "receipt", failed)
  /\ UNCHANGED <<node, req, block>>

Requests ==
  [tool : {"get_balance"}, address : Accounts \cup {Malformed}, amount : {0}]
    \cup [tool : {"transfer"}, address : Accounts \cup {Malformed}, amount : Amounts]
    \cup [tool : {"unknown"}, address : {from}, amount : {0}]

Step(c) ==
  \/ CheckArguments(c) \/ GetChainId(c) \/ GetLatestBlock(c) \/ GetBalance(c)
  \/ SendTransaction(c) \/ GetReceipt(c)

Next ==
  \/ Mine
  \/ \E h \in pool : Drop(h)
  \/ \E c \in CallIds : \E request \in Requests : Dispatch(c, request)
  \/ \E c \in CallIds : Step(c)

\* The node answers every request, except that it has nothing to say of a
\* transaction that is not mined.
Answerable(c) == pc[c] = "receipt" => MinedAt(TxOf(c)) > 0
Spec == Init /\ [][Next]_vars /\ \A c \in CallIds : WF_vars(Answerable(c) /\ Step(c))

-----------------------------------------------------------------------------
(* Properties *)

Attested(c, tool) == answer[c].kind = "attested" /\ req[c].tool = tool

\* The block that get_balance reports is the state its balance was read from,
\* however many blocks were mined while the call was handled, and the amount is
\* that balance in whole milli-ETH, rounded down and never beyond an i64.
AttestedBalanceIsOfItsBlock ==
  \A c \in CallIds : Attested(c, "get_balance") =>
    LET wei == chain[answer[c].block].balances[req[c].address]
        milli == answer[c].value
    IN  /\ milli * MILLI_ETH_WEI <= wei /\ milli <= I64Max
        /\ milli < I64Max => wei < (milli + 1) * MILLI_ETH_WEI

\* When transfer reports a hash and a block, the transaction is on the chain in
\* that block, and it is the one this call sent, to its address and for its
\* amount ("the transaction is on the chain by the time the program sees the
\* hash").
AttestedTransferIsOnTheChain ==
  \A c \in CallIds : Attested(c, "transfer") =>
    LET h == answer[c].reference IN
    /\ h \in DOMAIN txs /\ MinedAt(h) = answer[c].block /\ MinedAt(h) > 0
    /\ txs[h] = [call |-> c, to |-> req[c].address, value |-> answer[c].value * MILLI_ETH_WEI]

\* One call sends at most one transaction, whatever fails: a transfer that is
\* reported as failed may have moved its value once and never twice, and a call
\* with unfit arguments, or of another tool, sends none.
NoCallSpendsTwice ==
  \A h, g \in DOMAIN txs :
    /\ txs[h].call = txs[g].call => h = g
    /\ req[txs[h].call].tool = "transfer" /\ ArgumentsFit(req[txs[h].call])

\* Every call is answered, except a transfer whose transaction is never mined:
\* get_receipt has no timeout, so a transaction the node drops keeps its call
\* waiting, and one that is mined, even without effect, does not.
CallsAreAnswered ==
  \A c \in CallIds :
    /\ (pc[c] = "arguments") ~> (pc[c] \in {"receipt", "answered"})
    /\ (pc[c] = "receipt" /\ MinedAt(TxOf(c)) > 0) ~> (pc[c] = "answered")
=============================================================================
