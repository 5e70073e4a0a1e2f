---------------------------- MODULE WalletProofs ----------------------------
(***************************************************************************)
(* Theorems about Wallet.tla, for every number of concurrent calls and     *)
(* blocks, every amount and balance and every failure of the node.         *)
(***************************************************************************)
EXTENDS Wallet, TLAPS

-----------------------------------------------------------------------------
(* Amounts *)

\* eth_milli rounds down to whole milli-ETH and stops at the largest i64.
LEMMA EthMilliRoundsDown ==
  ASSUME NEW wei \in Int
  PROVE  /\ eth_milli(wei) \in Int
         /\ eth_milli(wei) * MILLI_ETH_WEI <= wei
         /\ eth_milli(wei) <= I64Max
         /\ eth_milli(wei) < I64Max => wei < (eth_milli(wei) + 1) * MILLI_ETH_WEI
<1> DEFINE M == MILLI_ETH_WEI
           q == wei \div M
           rest == wei % M
<1>1. M \in Int /\ M > 0 /\ I64Max \in Int
  BY UnitIsPositive
<1>2. q \in Int /\ rest \in Int /\ wei = M * q + rest /\ 0 <= rest /\ rest < M
  BY <1>1
<1> HIDE DEF M, q, rest
<1>3. q * M <= wei /\ wei < (q + 1) * M
  BY <1>1, <1>2
<1>4. CASE q > I64Max
  <2>1. (q - I64Max) * M >= 0
    BY <1>1, <1>2, <1>4
  <2>2. I64Max * M <= wei
    BY <1>1, <1>2, <1>3, <2>1
  <2> QED
    BY <1>1, <1>4, <2>2 DEF eth_milli, M, q
<1>5. CASE ~(q > I64Max)
  BY <1>1, <1>2, <1>3, <1>5 DEF eth_milli, M, q
<1> QED
  BY <1>4, <1>5

-----------------------------------------------------------------------------
(* The inductive invariant *)

PcValues ==
  {"idle", "arguments", "chain_id", "latest", "balance", "send", "receipt", "answered"}

Blocks == [balances : [Accounts -> Int], txs : SUBSET Nat]
Transactions == [call : CallIds, to : Accounts, value : Int]

NodeTypes ==
  /\ chain \in Seq(Blocks) /\ Len(chain) > 0
  /\ txs \in Seq(Transactions)
  /\ pool \subseteq DOMAIN txs
  /\ DOMAIN reverted \subseteq DOMAIN txs
  /\ \A h \in DOMAIN reverted : reverted[h] \in Nat \ {0}
  /\ \A n \in DOMAIN chain : chain[n].txs \subseteq DOMAIN txs

\* A transaction in the pool is not mined, and none is mined in two blocks.
MinedOnce ==
  /\ \A h \in pool : h \notin DOMAIN reverted /\ \A n \in 1..Height : h \notin chain[n].txs
  /\ \A m, n \in 1..Height : \A h \in chain[m].txs : h \in chain[n].txs => m = n

\* What a call has established by the time it gets to a place.
CallInv ==
  /\ pc \in [CallIds -> PcValues]
  /\ req = [c \in CallIds |-> req[c]]
  /\ answer = [c \in CallIds |-> answer[c]]
  /\ block = [c \in CallIds |-> block[c]]
  /\ \A c \in CallIds :
       /\ pc[c] # "idle" => req[c] \in Requests
       /\ pc[c] \notin {"idle", "answered"} => req[c].tool \in {"get_balance", "transfer"}
       /\ pc[c] \notin {"idle", "arguments", "answered"} => ArgumentsFit(req[c])
       /\ pc[c] \in {"latest", "balance"} => req[c].tool = "get_balance"
       /\ pc[c] \in {"send", "receipt"} => req[c].tool = "transfer"
       /\ pc[c] = "balance" => block[c] \in 1..Height
       /\ pc[c] # "answered" => answer[c] = None

TxFor(c) == [call |-> c, to |-> req[c].address, value |-> req[c].amount * MILLI_ETH_WEI]

\* Only a call that is past `send` has a transaction, its own and one.
SentInv ==
  /\ \A h \in DOMAIN txs :
       /\ pc[txs[h].call] \in {"receipt", "answered"}
       /\ req[txs[h].call].tool = "transfer" /\ ArgumentsFit(req[txs[h].call])
       /\ \A g \in DOMAIN txs : txs[g].call = txs[h].call => g = h
  /\ \A c \in CallIds : pc[c] = "receipt" => \E h \in DOMAIN txs : txs[h] = TxFor(c)

\* What an answer says is so, and was what the node said.
AnswerInv ==
  /\ \A c \in CallIds : Attested(c, "get_balance") =>
       /\ answer[c].block \in 1..Height
       /\ req[c].address \in Accounts
       /\ answer[c].value = eth_milli(chain[answer[c].block].balances[req[c].address])
  /\ AttestedTransferIsOnTheChain

WalletInv == NodeTypes /\ MinedOnce /\ CallInv /\ SentInv /\ AnswerInv

-----------------------------------------------------------------------------
(* The node *)

\* A transaction that moved its value is mined at the block that has it.
MinedWhereFound ==
  \A n \in 1..Height : \A h \in chain[n].txs : h \notin DOMAIN reverted => MinedAt(h) = n

LEMMA MinedAtIs == MinedOnce => MinedWhereFound
<1> SUFFICES ASSUME MinedOnce, NEW n \in 1..Height, NEW h \in chain[n].txs,
                    h \notin DOMAIN reverted
             PROVE  MinedAt(h) = n
  BY DEF MinedWhereFound
<1> DEFINE m == CHOOSE k \in 1..Height : h \in chain[k].txs
<1>1. MinedAt(h) = m
  BY DEF MinedAt
<1>2. m \in 1..Height /\ h \in chain[m].txs
  OBVIOUS
<1> HIDE DEF m
<1> QED
  BY <1>1, <1>2 DEF MinedOnce

\* What the node may do to its blocks and transactions: blocks are final, a mined
\* transaction comes from the pool, and new transactions are appended.
NodeGoesOn ==
  /\ Height' >= Height
  /\ \A n \in 1..Height : chain'[n] = chain[n]
  /\ \A h \in DOMAIN reverted : h \in DOMAIN reverted' /\ reverted'[h] = reverted[h]
  /\ \A h \in DOMAIN reverted' : h \in DOMAIN reverted \/ h \in pool
  /\ \A h \in DOMAIN txs : h \in DOMAIN txs' /\ txs'[h] = txs[h]

\* Once mined, a transaction stays mined at its block.
LEMMA MinedAtKept ==
  ASSUME NodeTypes, MinedOnce, MinedOnce', NodeTypes', NodeGoesOn,
         NEW h, MinedAt(h) > 0
  PROVE  MinedAt(h)' = MinedAt(h)
<1>1. CASE h \in DOMAIN reverted
  BY <1>1 DEF MinedAt, NodeGoesOn
<1>2. CASE h \notin DOMAIN reverted
  <2>1. PICK n \in 1..Height : h \in chain[n].txs
    BY <1>2 DEF MinedAt
  <2>2. MinedAt(h) = n
    BY <1>2, <2>1, MinedAtIs DEF MinedWhereFound
  <2>3. n \in 1..Height' /\ h \in chain'[n].txs
    BY <2>1 DEF NodeGoesOn, Height, NodeTypes
  <2>4. h \notin DOMAIN reverted'
    BY <1>2, <2>1 DEF NodeGoesOn, MinedOnce
  <2>5. MinedWhereFound'
    BY MinedAtIs, PTL
  <2> QED
    BY <2>2, <2>3, <2>4, <2>5 DEF MinedWhereFound
<1> QED
  BY <1>1, <1>2

\* What the answers say stays so while the node goes on.
LEMMA AnswersKept ==
  ASSUME WalletInv, MinedOnce', NodeTypes', NodeGoesOn, UNCHANGED <<req, answer>>
  PROVE  AnswerInv'
<1>1. Height \in Nat /\ Height' \in Nat
  BY DEF WalletInv, NodeTypes, Height
<1>2. ASSUME NEW c \in CallIds, Attested(c, "get_balance")
      PROVE  /\ answer[c].block \in 1..Height'
             /\ req[c].address \in Accounts
             /\ answer[c].value = eth_milli(chain'[answer[c].block].balances[req[c].address])
  BY <1>1, <1>2 DEF WalletInv, AnswerInv, NodeGoesOn
<1>3. ASSUME NEW c \in CallIds, Attested(c, "transfer")
      PROVE  LET h == answer[c].reference IN
             /\ h \in DOMAIN txs' /\ MinedAt(h)' = answer[c].block /\ MinedAt(h)' > 0
             /\ txs'[h] = [call |-> c, to |-> req[c].address,
                           value |-> answer[c].value * MILLI_ETH_WEI]
  <2> DEFINE h == answer[c].reference
  <2>1. /\ h \in DOMAIN txs /\ MinedAt(h) = answer[c].block /\ MinedAt(h) > 0
        /\ txs[h] = [call |-> c, to |-> req[c].address,
                     value |-> answer[c].value * MILLI_ETH_WEI]
    BY <1>3 DEF WalletInv, AnswerInv, AttestedTransferIsOnTheChain
  <2>2. MinedAt(h)' = MinedAt(h)
    BY <2>1, MinedAtKept DEF WalletInv
  <2> QED
    BY <2>1, <2>2 DEF NodeGoesOn
<1> QED
  BY <1>2, <1>3 DEF AnswerInv, AttestedTransferIsOnTheChain, Attested, eth_milli

\* A block is appended.
LEMMA MinesBlock ==
  ASSUME WalletInv, NEW b \in Blocks, chain' = Append(chain, b),
         NEW mined \in SUBSET pool, b.txs \subseteq mined,
         pool' = pool \ mined,
         DOMAIN reverted' = DOMAIN reverted \cup (mined \ b.txs),
         \A h \in DOMAIN reverted : reverted'[h] = reverted[h],
         \A h \in mined \ b.txs : reverted'[h] = Height + 1,
         UNCHANGED <<dropped, txs, pc, req, block, answer>>
  PROVE  WalletInv'
<1>1. /\ chain \in Seq(Blocks) /\ Len(chain) \in Nat /\ Len(chain) > 0
      /\ pool \subseteq DOMAIN txs
  BY DEF WalletInv, NodeTypes
<1>2. /\ chain' \in Seq(Blocks) /\ Height' = Height + 1 /\ Height \in Nat
      /\ DOMAIN chain = 1..Height /\ DOMAIN chain' = 1..(Height + 1)
      /\ chain'[Height + 1] = b
      /\ \A n \in 1..Height : chain'[n] = chain[n]
  BY <1>1 DEF Height
<1>3. NodeTypes'
  <2>1. \A n \in DOMAIN chain' : chain'[n].txs \subseteq DOMAIN txs
    BY <1>1, <1>2 DEF WalletInv, NodeTypes
  <2>2. \A h \in DOMAIN reverted' : reverted'[h] \in Nat \ {0}
    BY <1>1, <1>2 DEF WalletInv, NodeTypes
  <2>3. pool' \subseteq DOMAIN txs /\ DOMAIN reverted' \subseteq DOMAIN txs
    BY <1>1 DEF WalletInv, NodeTypes
  <2>4. Len(chain') > 0
    BY <1>1, <1>2 DEF Height
  <2> QED
    BY <1>2, <2>1, <2>2, <2>3, <2>4 DEF WalletInv, NodeTypes
<1>4. MinedOnce'
  <2>0. \A h \in pool : h \notin DOMAIN reverted /\ \A n \in 1..Height : h \notin chain[n].txs
    BY DEF WalletInv, MinedOnce
  <2>1. ASSUME NEW h \in pool'
        PROVE  h \notin DOMAIN reverted' /\ \A n \in 1..Height' : h \notin chain'[n].txs
    BY <1>2, <2>0
  <2>2. ASSUME NEW m \in 1..Height', NEW n \in 1..Height', NEW h \in chain'[m].txs,
               h \in chain'[n].txs
        PROVE  m = n
    <3>1. CASE m \in 1..Height /\ n \in 1..Height
      BY <1>2, <2>2, <3>1 DEF WalletInv, MinedOnce
    <3>2. CASE ~(m \in 1..Height /\ n \in 1..Height)
      BY <1>2, <2>0, <2>2, <3>2
    <3> QED
      BY <3>1, <3>2
  <2> QED
    BY <2>1, <2>2 DEF MinedOnce
<1>5. NodeGoesOn
  BY <1>2 DEF NodeGoesOn
<1>6. AnswerInv'
  BY <1>3, <1>4, <1>5, AnswersKept
<1>7. CallInv'
  BY <1>2 DEF WalletInv, CallInv
<1>8. SentInv'
  BY DEF WalletInv, SentInv, TxFor
<1> QED
  BY <1>3, <1>4, <1>6, <1>7, <1>8 DEF WalletInv

LEMMA TransactionTypes ==
  ASSUME NodeTypes, NEW h \in DOMAIN txs
  PROVE  h \in Nat /\ txs[h].call \in CallIds /\ txs[h].value \in Int
<1>1. txs \in Seq(Transactions)
  BY DEF NodeTypes
<1>2. h \in Nat /\ txs[h] \in Transactions
  BY <1>1
<1> QED
  BY <1>2 DEF Transactions

LEMMA NodeWalletInv == WalletInv /\ (Mine \/ \E h \in pool : Drop(h)) => WalletInv'
<1>1. ASSUME WalletInv, Mine PROVE WalletInv'
  <2> DEFINE tip == chain[Height].balances
  <2>1. /\ chain[Height] \in Blocks /\ tip \in [Accounts -> Int] /\ Height \in Nat
        /\ \A h \in pool : h \in Nat /\ txs[h].value \in Int
    <3>1. chain \in Seq(Blocks) /\ Len(chain) > 0 /\ pool \subseteq DOMAIN txs
      BY <1>1 DEF WalletInv, NodeTypes
    <3>2. chain[Height] \in Blocks /\ Height \in Nat
      BY <3>1 DEF Height
    <3>3. tip \in [Accounts -> Int]
      BY <3>2 DEF Blocks
    <3> QED
      BY <1>1, <3>1, <3>2, <3>3, TransactionTypes DEF WalletInv
  <2>2. Fee \in Int /\ Income \in Int /\ from \in Accounts
    BY WeiAreNumbers, FromIsAnAccount
  <2>3. UNCHANGED <<dropped, txs, pc, req, block, answer>>
    BY <1>1 DEF Mine
  <2>4. ASSUME NEW h \in pool,
               chain' = Append(chain, [balances |-> Moved(tip, h), txs |-> {h}]),
               pool' = pool \ {h}, UNCHANGED reverted
        PROVE  WalletInv'
    <3>1. Moved(tip, h) \in [Accounts -> Int]
      BY <2>1, <2>2 DEF Moved
    <3>2. [balances |-> Moved(tip, h), txs |-> {h}] \in Blocks
      BY <2>1, <3>1 DEF Blocks
    <3> QED
      BY <1>1, <2>3, <2>4, <3>2, MinesBlock
  <2>5. ASSUME NEW h \in pool,
               chain' = Append(chain, [balances |-> [tip EXCEPT ![from] = @ - Fee], txs |-> {}]),
               pool' = pool \ {h},
               reverted' = [g \in DOMAIN reverted \cup {h} |->
                              IF g = h THEN Height + 1 ELSE reverted[g]]
        PROVE  WalletInv'
    <3>1. [balances |-> [tip EXCEPT ![from] = @ - Fee], txs |-> {}] \in Blocks
      BY <2>1, <2>2 DEF Blocks
    <3>2. h \notin DOMAIN reverted
      BY <1>1 DEF WalletInv, MinedOnce
    <3> QED
      BY <1>1, <2>3, <2>5, <3>1, <3>2, MinesBlock
  <2>6. ASSUME NEW a \in Accounts,
               chain' = Append(chain, [balances |-> [tip EXCEPT ![a] = @ + Income], txs |-> {}]),
               UNCHANGED <<pool, reverted>>
        PROVE  WalletInv'
    <3>1. [balances |-> [tip EXCEPT ![a] = @ + Income], txs |-> {}] \in Blocks
      BY <2>1, <2>2 DEF Blocks
    <3> QED
      BY <1>1, <2>3, <2>6, <3>1, MinesBlock
  <2> QED
    BY <1>1, <2>4, <2>5, <2>6 DEF Mine
<1>2. ASSUME WalletInv, NEW h \in pool, Drop(h) PROVE WalletInv'
  <2>1. NodeTypes' /\ MinedOnce' /\ CallInv' /\ SentInv'
    BY <1>2 DEF Drop, WalletInv, NodeTypes, MinedOnce, CallInv, SentInv, Height, TxFor
  <2>2. NodeGoesOn
    BY <1>2 DEF Drop, NodeGoesOn, Height, WalletInv, NodeTypes
  <2>3. AnswerInv'
    BY <1>2, <2>1, <2>2, AnswersKept DEF Drop
  <2> QED
    BY <2>1, <2>3 DEF WalletInv
<1> QED
  BY <1>1, <1>2

-----------------------------------------------------------------------------
(* The calls *)

\* A call moves on; the node and the other calls stay where they are.
LEMMA CallMoves ==
  ASSUME WalletInv, NEW c \in CallIds, NEW to \in PcValues \ {"idle"}, NEW q \in Requests,
         NEW pinned, NEW result, UNCHANGED node, pc[c] # "answered",
         pc' = [pc EXCEPT ![c] = to], req' = [req EXCEPT ![c] = q],
         block' = [block EXCEPT ![c] = pinned], answer' = [answer EXCEPT ![c] = result],
         pc[c] = "idle" \/ q = req[c],
         to # "answered" => q.tool \in {"get_balance", "transfer"},
         to \notin {"arguments", "answered"} => ArgumentsFit(q),
         to \in {"latest", "balance"} => q.tool = "get_balance",
         to \in {"send", "receipt"} => q.tool = "transfer",
         to = "balance" => pinned \in 1..Height,
         to # "answered" => result = None,
         to = "receipt" => pc[c] = "receipt",
         pc[c] = "receipt" => to \in {"receipt", "answered"},
         result.kind = "attested" /\ q.tool = "get_balance" =>
           /\ result.block \in 1..Height /\ q.address \in Accounts
           /\ result.value = eth_milli(chain[result.block].balances[q.address]),
         result.kind = "attested" /\ q.tool = "transfer" =>
           /\ result.reference \in DOMAIN txs
           /\ MinedAt(result.reference) = result.block /\ MinedAt(result.reference) > 0
           /\ txs[result.reference] =
                [call |-> c, to |-> q.address, value |-> result.value * MILLI_ETH_WEI]
  PROVE  WalletInv'
<1>1. /\ \A d \in CallIds : pc'[d] = IF d = c THEN to ELSE pc[d]
      /\ \A d \in CallIds : req'[d] = IF d = c THEN q ELSE req[d]
      /\ \A d \in CallIds : block'[d] = IF d = c THEN pinned ELSE block[d]
      /\ \A d \in CallIds : answer'[d] = IF d = c THEN result ELSE answer[d]
      /\ pc' \in [CallIds -> PcValues]
      /\ req' = [d \in CallIds |-> req'[d]]
      /\ answer' = [d \in CallIds |-> answer'[d]]
      /\ block' = [d \in CallIds |-> block'[d]]
  BY DEF WalletInv, CallInv
<1>2. chain' = chain /\ pool' = pool /\ reverted' = reverted /\ dropped' = dropped /\ txs' = txs
  BY DEF node
<1>3. NodeTypes' /\ MinedOnce'
  BY <1>2 DEF WalletInv, NodeTypes, MinedOnce, Height
<1>4. CallInv'
  <2>1. CallInv /\ Height' = Height
    BY <1>2 DEF WalletInv, Height
  <2> QED
    BY <1>1, <2>1 DEF CallInv
<1>5. SentInv'
  <2>1. ASSUME NEW h \in DOMAIN txs
        PROVE  /\ pc'[txs[h].call] \in {"receipt", "answered"}
               /\ req'[txs[h].call].tool = "transfer" /\ ArgumentsFit(req'[txs[h].call])
               /\ \A g \in DOMAIN txs : txs[g].call = txs[h].call => g = h
    <3>1. /\ pc[txs[h].call] \in {"receipt", "answered"}
          /\ req[txs[h].call].tool = "transfer" /\ ArgumentsFit(req[txs[h].call])
          /\ \A g \in DOMAIN txs : txs[g].call = txs[h].call => g = h
      BY DEF WalletInv, SentInv
    <3>2. txs[h].call \in CallIds
      BY TransactionTypes DEF WalletInv
    <3> QED
      BY <1>1, <3>1, <3>2
  <2>2. ASSUME NEW d \in CallIds, pc'[d] = "receipt"
        PROVE  \E h \in DOMAIN txs : txs[h] = TxFor(d)'
    <3>1. pc[d] = "receipt" /\ req'[d] = req[d]
      BY <1>1, <2>2
    <3>2. TxFor(d)' = TxFor(d)
      BY <3>1 DEF TxFor
    <3> QED
      BY <3>1, <3>2 DEF WalletInv, SentInv
  <2> QED
    BY <1>2, <2>1, <2>2 DEF SentInv, ArgumentsFit
<1>6. AnswerInv'
  <2>0. Height' = Height /\ \A h : MinedAt(h)' = MinedAt(h)
    BY <1>2 DEF MinedAt, Height
  <2>1. ASSUME NEW d \in CallIds, d # c PROVE req'[d] = req[d] /\ answer'[d] = answer[d]
    BY <1>1, <2>1
  <2>2. ASSUME NEW d \in CallIds, Attested(d, "get_balance")'
        PROVE  /\ answer'[d].block \in 1..Height
               /\ req'[d].address \in Accounts
               /\ answer'[d].value = eth_milli(chain[answer'[d].block].balances[req'[d].address])
    BY <1>1, <2>2 DEF Attested, WalletInv, AnswerInv
  <2>3. ASSUME NEW d \in CallIds, Attested(d, "transfer")'
        PROVE  LET h == answer'[d].reference IN
               /\ h \in DOMAIN txs /\ MinedAt(h) = answer'[d].block /\ MinedAt(h) > 0
               /\ txs[h] = [call |-> d, to |-> req'[d].address,
                            value |-> answer'[d].value * MILLI_ETH_WEI]
    BY <1>1, <2>3 DEF Attested, WalletInv, AnswerInv, AttestedTransferIsOnTheChain
  <2>4. AttestedTransferIsOnTheChain'
    BY <1>2, <2>0, <2>3 DEF AttestedTransferIsOnTheChain
  <2>5. \A d \in CallIds : Attested(d, "get_balance")' =>
          /\ answer'[d].block \in 1..Height'
          /\ req'[d].address \in Accounts
          /\ answer'[d].value = eth_milli(chain'[answer'[d].block].balances[req'[d].address])
    BY <1>2, <2>0, <2>2
  <2> QED
    BY <2>4, <2>5 DEF AnswerInv, eth_milli
<1> QED
  BY <1>3, <1>4, <1>5, <1>6 DEF WalletInv

\* A call that fails is answered, whatever place it was at.
LEMMA CallFails ==
  ASSUME WalletInv, NEW c \in CallIds, NEW where \in PcValues \ {"idle", "answered"},
         Respond(c, where, failed), UNCHANGED <<node, req, block>>
  PROVE  WalletInv'
<1>1. /\ pc[c] = where /\ pc' = [pc EXCEPT ![c] = "answered"]
      /\ answer' = [answer EXCEPT ![c] = failed]
  BY DEF Respond, Goto
<1>2. /\ req[c] \in Requests /\ req' = [req EXCEPT ![c] = req[c]]
      /\ block' = [block EXCEPT ![c] = block[c]]
  BY <1>1 DEF WalletInv, CallInv
<1>3. "answered" \in PcValues \ {"idle"} /\ failed.kind # "attested"
  BY DEF PcValues, failed
<1> QED
  BY <1>1, <1>2, <1>3, CallMoves

\* A call goes from one place to another, with its arguments.
LEMMA CallGoes ==
  ASSUME WalletInv, NEW c \in CallIds, NEW where \in PcValues \ {"idle", "answered", "receipt"},
         NEW to \in PcValues \ {"idle", "answered", "receipt"},
         Goto(c, where, to), UNCHANGED <<node, req, answer>>,
         \/ UNCHANGED block /\ to # "balance"
         \/ block' = [block EXCEPT ![c] = Height],
         to # "arguments" => ArgumentsFit(req[c]),
         to \in {"latest", "balance"} => req[c].tool = "get_balance",
         to = "send" => req[c].tool = "transfer"
  PROVE  WalletInv'
<1>1. pc[c] = where /\ pc' = [pc EXCEPT ![c] = to]
  BY DEF Goto
<1>2. /\ req[c] \in Requests /\ req' = [req EXCEPT ![c] = req[c]]
      /\ answer' = [answer EXCEPT ![c] = None]
      /\ req[c].tool \in {"get_balance", "transfer"}
  BY <1>1 DEF WalletInv, CallInv
<1>3. Height \in 1..Height
  BY DEF WalletInv, NodeTypes, Height
<1>4. None.kind # "attested"
  BY DEF None
<1>5. PICK pinned : /\ block' = [block EXCEPT ![c] = pinned]
                    /\ to = "balance" => pinned \in 1..Height
  <2>1. block = [block EXCEPT ![c] = block[c]]
    BY DEF WalletInv, CallInv
  <2> QED
    BY <1>3, <2>1
<1>6. /\ to \in PcValues \ {"idle"} /\ to \notin {"answered", "receipt"}
      /\ pc[c] \notin {"answered", "receipt"}
  BY <1>1
<1> QED
  BY <1>1, <1>2, <1>4, <1>5, <1>6, CallMoves, ZenonT(30)

\* The transaction of a call that waits for its receipt.
LEMMA TxOfCall ==
  ASSUME WalletInv, NEW c \in CallIds, pc[c] = "receipt"
  PROVE  TxOf(c) \in DOMAIN txs /\ txs[TxOf(c)] = TxFor(c)
<1>1. PICK h \in DOMAIN txs : txs[h] = TxFor(c)
  BY DEF WalletInv, SentInv
<1>2. txs[h].call = c
  BY <1>1 DEF TxFor
<1>3. TxOf(c) \in DOMAIN txs /\ txs[TxOf(c)].call = c
  BY <1>2 DEF TxOf
<1>4. TxOf(c) = h
  BY <1>2, <1>3 DEF WalletInv, SentInv
<1> QED
  BY <1>1, <1>4

\* The node takes the transaction of a call.
LEMMA TakesTransaction ==
  ASSUME WalletInv, NEW c \in CallIds, pc[c] = "send",
         txs' = Append(txs, TxFor(c)), pool' = pool \cup {Len(txs) + 1},
         NEW to \in {"receipt", "answered"}, NEW result,
         pc' = [pc EXCEPT ![c] = to], answer' = [answer EXCEPT ![c] = result],
         to # "answered" => result = None, result.kind # "attested",
         UNCHANGED <<chain, reverted, dropped, req, block>>
  PROVE  WalletInv'
<1>1. /\ req[c] \in Requests /\ ArgumentsFit(req[c]) /\ req[c].tool = "transfer"
      /\ txs \in Seq(Transactions)
  BY DEF WalletInv, CallInv, NodeTypes
<1>2. TxFor(c) \in Transactions
  <2>1. req[c].address \in Accounts
    BY <1>1 DEF ArgumentsFit
  <2>2. req[c].amount \in Int
    BY <1>1, WeiAreNumbers DEF Requests
  <2>3. req[c].amount * MILLI_ETH_WEI \in Int
    BY <2>2, UnitIsPositive
  <2> QED
    BY <2>1, <2>3 DEF TxFor, Transactions
<1> DEFINE new == Len(txs) + 1
<1>3. /\ txs' \in Seq(Transactions)
      /\ DOMAIN txs' = DOMAIN txs \cup {new} /\ new \notin DOMAIN txs
      /\ txs'[new] = TxFor(c)
      /\ \A h \in DOMAIN txs : txs'[h] = txs[h]
  <2>1. /\ txs' \in Seq(Transactions) /\ Len(txs) \in Nat
        /\ DOMAIN txs = 1..Len(txs) /\ DOMAIN txs' = 1..(Len(txs) + 1)
        /\ txs'[new] = TxFor(c)
        /\ \A h \in 1..Len(txs) : txs'[h] = txs[h]
    BY <1>1, <1>2
  <2> QED
    BY <2>1
<1> HIDE DEF new
<1>4. NodeTypes'
  BY <1>3 DEF WalletInv, NodeTypes, new
<1>5. MinedOnce'
  <2>1. new \notin DOMAIN reverted /\ \A n \in 1..Height : new \notin chain[n].txs
    BY <1>3 DEF WalletInv, NodeTypes, Height
  <2> QED
    BY <2>1 DEF WalletInv, MinedOnce, Height, new
<1>6. /\ \A d \in CallIds : pc'[d] = IF d = c THEN to ELSE pc[d]
      /\ \A d \in CallIds : answer'[d] = IF d = c THEN result ELSE answer[d]
      /\ pc' \in [CallIds -> PcValues]
      /\ answer' = [d \in CallIds |-> answer'[d]]
  BY DEF WalletInv, CallInv, PcValues
<1>7. CallInv'
  <2>1. CallInv /\ Height' = Height
    BY DEF WalletInv, Height
  <2> QED
    BY <1>1, <1>6, <2>1 DEF CallInv
<1>8. SentInv'
  <2>1. ASSUME NEW h \in DOMAIN txs PROVE txs[h].call # c
    BY DEF WalletInv, SentInv
  <2>2. TxFor(c).call = c
    BY DEF TxFor
  <2>3. ASSUME NEW h \in DOMAIN txs'
        PROVE  /\ pc'[txs'[h].call] \in {"receipt", "answered"}
               /\ req[txs'[h].call].tool = "transfer" /\ ArgumentsFit(req[txs'[h].call])
               /\ \A g \in DOMAIN txs' : txs'[g].call = txs'[h].call => g = h
    <3>1. CASE h = new
      BY <1>1, <1>3, <1>6, <2>1, <2>2, <3>1
    <3>2. CASE h # new
      <4>1. h \in DOMAIN txs /\ txs'[h] = txs[h]
        BY <1>3, <3>2
      <4>2. /\ pc[txs[h].call] \in {"receipt", "answered"}
            /\ req[txs[h].call].tool = "transfer" /\ ArgumentsFit(req[txs[h].call])
            /\ \A g \in DOMAIN txs : txs[g].call = txs[h].call => g = h
        BY <4>1 DEF WalletInv, SentInv
      <4>3. txs[h].call \in CallIds /\ txs[h].call # c
        BY <2>1, <4>1, TransactionTypes DEF WalletInv
      <4> QED
        BY <1>3, <1>6, <2>2, <4>1, <4>2, <4>3
    <3> QED
      BY <3>1, <3>2
  <2>4. ASSUME NEW d \in CallIds, pc'[d] = "receipt"
        PROVE  \E h \in DOMAIN txs' : txs'[h] = TxFor(d)
    <3>1. CASE d = c
      BY <1>3, <3>1
    <3>2. CASE d # c
      BY <1>3, <1>6, <2>4, <3>2 DEF WalletInv, SentInv
    <3> QED
      BY <3>1, <3>2
  <2> QED
    BY <2>3, <2>4 DEF SentInv, ArgumentsFit, TxFor
<1>9. AnswerInv'
  <2>2. ASSUME NEW d \in CallIds, NEW tool, Attested(d, tool)'
        PROVE  d # c /\ answer'[d] = answer[d] /\ Attested(d, tool)
    BY <1>6, <2>2 DEF Attested
  <2>3. Height' = Height
    BY DEF Height
  <2>4. \A d \in CallIds : Attested(d, "get_balance")' =>
          /\ answer'[d].block \in 1..Height'
          /\ req'[d].address \in Accounts
          /\ answer'[d].value = eth_milli(chain'[answer'[d].block].balances[req'[d].address])
    BY <2>2, <2>3 DEF WalletInv, AnswerInv
  <2>5. ASSUME NEW d \in CallIds, Attested(d, "transfer")'
        PROVE  LET h == answer'[d].reference IN
               /\ h \in DOMAIN txs' /\ MinedAt(h) = answer'[d].block /\ MinedAt(h) > 0
               /\ txs'[h] = [call |-> d, to |-> req'[d].address,
                             value |-> answer'[d].value * MILLI_ETH_WEI]
    <3> DEFINE h == answer[d].reference
    <3>1. /\ h \in DOMAIN txs /\ MinedAt(h) = answer[d].block /\ MinedAt(h) > 0
          /\ txs[h] = [call |-> d, to |-> req[d].address,
                       value |-> answer[d].value * MILLI_ETH_WEI]
      BY <2>2, <2>5 DEF WalletInv, AnswerInv, AttestedTransferIsOnTheChain
    <3>2. answer'[d] = answer[d] /\ answer'[d].reference = h
      BY <2>2, <2>5
    <3> QED
      BY <1>3, <3>1, <3>2
  <2>6. AttestedTransferIsOnTheChain'
    <3>1. \A h : MinedAt(h)' = MinedAt(h)
      BY DEF MinedAt, Height
    <3> QED
      BY <2>5, <3>1 DEF AttestedTransferIsOnTheChain
  <2> QED
    BY <2>4, <2>6 DEF AnswerInv, eth_milli
<1> QED
  BY <1>4, <1>5, <1>7, <1>8, <1>9 DEF WalletInv

LEMMA CallWalletInv ==
  ASSUME WalletInv, NEW c \in CallIds,
         Step(c) \/ \E request \in Requests : Dispatch(c, request)
  PROVE  WalletInv'
<1> USE DEF PcValues
<1>1. ASSUME NEW request \in Requests, Dispatch(c, request) PROVE WalletInv'
  <2>1. /\ pc[c] = "idle" /\ req' = [req EXCEPT ![c] = request] /\ UNCHANGED node
        /\ block' = [block EXCEPT ![c] = block[c]]
        /\ answer = [answer EXCEPT ![c] = None]
    BY <1>1 DEF Dispatch, WalletInv, CallInv
  <2>2. CASE /\ request.tool \in {"get_balance", "transfer"}
             /\ pc' = [pc EXCEPT ![c] = "arguments"] /\ UNCHANGED answer
    <3>1. None.kind # "attested" /\ answer' = [answer EXCEPT ![c] = None]
      BY <2>1, <2>2 DEF None
    <3> QED
      BY <2>1, <2>2, <3>1, CallMoves
  <2>3. CASE /\ pc' = [pc EXCEPT ![c] = "answered"]
             /\ answer' = [answer EXCEPT ![c] = [kind |-> "invalid_params"]]
    BY <2>1, <2>3, CallMoves
  <2> QED
    BY <1>1, <2>2, <2>3 DEF Dispatch, Respond, Goto
<1>2. CASE CheckArguments(c)
  <2>1. CASE /\ ArgumentsFit(req[c]) /\ Goto(c, "arguments", "chain_id")
             /\ UNCHANGED <<node, req, block, answer>>
    BY <2>1, CallGoes
  <2>2. CASE Respond(c, "arguments", failed) /\ UNCHANGED <<node, req, block>>
    BY <2>2, CallFails
  <2> QED
    BY <1>2, <2>1, <2>2 DEF CheckArguments
<1>3. CASE GetChainId(c)
  <2>1. CASE /\ Goto(c, "chain_id", IF req[c].tool = "transfer" THEN "send" ELSE "latest")
             /\ UNCHANGED <<node, req, block, answer>>
    <3>1. ArgumentsFit(req[c]) /\ req[c].tool \in {"get_balance", "transfer"}
      BY <2>1 DEF Goto, WalletInv, CallInv
    <3> QED
      BY <2>1, <3>1, CallGoes
  <2>2. CASE Respond(c, "chain_id", failed) /\ UNCHANGED <<node, req, block>>
    BY <2>2, CallFails
  <2> QED
    BY <1>3, <2>1, <2>2 DEF GetChainId
<1>4. CASE GetLatestBlock(c)
  <2>1. CASE /\ Goto(c, "latest", "balance") /\ block' = [block EXCEPT ![c] = Height]
             /\ UNCHANGED <<node, req, answer>>
    <3>1. ArgumentsFit(req[c]) /\ req[c].tool = "get_balance"
      BY <2>1 DEF Goto, WalletInv, CallInv
    <3> QED
      BY <2>1, <3>1, CallGoes
  <2>2. CASE Respond(c, "latest", failed) /\ UNCHANGED <<node, req, block>>
    BY <2>2, CallFails
  <2> QED
    BY <1>4, <2>1, <2>2 DEF GetLatestBlock
<1>5. CASE GetBalance(c)
  <2>1. CASE Respond(c, "balance", attested(eth_milli(BalanceRead(c)), block[c], block[c]))
             /\ UNCHANGED <<node, req, block>>
    <3> DEFINE result == attested(eth_milli(BalanceRead(c)), block[c], block[c])
    <3>1. /\ pc[c] = "balance" /\ pc' = [pc EXCEPT ![c] = "answered"]
          /\ answer' = [answer EXCEPT ![c] = result]
      BY <2>1 DEF Respond, Goto
    <3>2. /\ req[c] \in Requests /\ req' = [req EXCEPT ![c] = req[c]]
          /\ block' = [block EXCEPT ![c] = block[c]]
          /\ block[c] \in 1..Height
          /\ ArgumentsFit(req[c]) /\ req[c].tool = "get_balance"
      BY <2>1, <3>1 DEF WalletInv, CallInv
    <3>3. req[c].address \in Accounts
      BY <3>2 DEF ArgumentsFit
    <3>4. /\ result.block = block[c]
          /\ result.value = eth_milli(chain[block[c]].balances[req[c].address])
      BY DEF attested, BalanceRead
    <3> HIDE DEF result
    <3> QED
      BY <2>1, <3>1, <3>2, <3>3, <3>4, CallMoves, ZenonT(30)
  <2>2. CASE Respond(c, "balance", failed) /\ UNCHANGED <<node, req, block>>
    BY <2>2, CallFails
  <2> QED
    BY <1>5, <2>1, <2>2 DEF GetBalance
<1>6. CASE SendTransaction(c)
  <2>0. pc[c] = "send" /\ UNCHANGED <<chain, reverted, dropped, req, block>>
    BY <1>6 DEF SendTransaction
  <2>1. CASE /\ txs' = Append(txs, TxFor(c)) /\ pool' = pool \cup {Len(txs) + 1}
             /\ Goto(c, "send", "receipt") /\ UNCHANGED answer
    <3>1. answer' = [answer EXCEPT ![c] = None] /\ None.kind # "attested"
      BY <2>0, <2>1 DEF WalletInv, CallInv, None
    <3> QED
      BY <2>0, <2>1, <3>1, TakesTransaction DEF Goto
  <2>2. CASE /\ txs' = Append(txs, TxFor(c)) /\ pool' = pool \cup {Len(txs) + 1}
             /\ Respond(c, "send", failed)
    <3>1. failed.kind # "attested"
      BY DEF failed
    <3> QED
      BY <2>0, <2>2, <3>1, TakesTransaction DEF Respond, Goto
  <2>3. CASE Respond(c, "send", failed) /\ UNCHANGED <<txs, pool>>
    BY <2>0, <2>3, CallFails DEF node
  <2> QED
    BY <1>6, <2>1, <2>2, <2>3 DEF SendTransaction, TxFor
<1>7. CASE GetReceipt(c)
  <2>1. CASE /\ MinedAt(TxOf(c)) > 0
             /\ Respond(c, "receipt", attested(req[c].amount, MinedAt(TxOf(c)), TxOf(c)))
             /\ UNCHANGED <<node, req, block>>
    <3> DEFINE result == attested(req[c].amount, MinedAt(TxOf(c)), TxOf(c))
    <3>1. /\ pc[c] = "receipt" /\ pc' = [pc EXCEPT ![c] = "answered"]
          /\ answer' = [answer EXCEPT ![c] = result]
      BY <2>1 DEF Respond, Goto
    <3>2. /\ req[c] \in Requests /\ req' = [req EXCEPT ![c] = req[c]]
          /\ block' = [block EXCEPT ![c] = block[c]]
          /\ req[c].tool = "transfer"
      BY <2>1, <3>1 DEF WalletInv, CallInv
    <3>3. /\ result.reference = TxOf(c) /\ result.block = MinedAt(TxOf(c))
          /\ result.value = req[c].amount
      BY DEF attested
    <3>4. TxOf(c) \in DOMAIN txs /\ txs[TxOf(c)] = TxFor(c)
      BY <3>1, TxOfCall
    <3> HIDE DEF result
    <3>5. /\ result.reference \in DOMAIN txs
          /\ MinedAt(result.reference) = result.block /\ MinedAt(result.reference) > 0
          /\ txs[result.reference] =
               [call |-> c, to |-> req[c].address, value |-> result.value * MILLI_ETH_WEI]
      BY <2>1, <3>3, <3>4 DEF TxFor
    <3> QED
      BY <2>1, <3>1, <3>2, <3>5, CallMoves
  <2>2. CASE Respond(c, "receipt", failed) /\ UNCHANGED <<node, req, block>>
    BY <2>2, CallFails
  <2> QED
    BY <1>7, <2>1, <2>2 DEF GetReceipt
<1> QED
  BY <1>1, <1>2, <1>3, <1>4, <1>5, <1>6, <1>7 DEF Step

LEMMA InitWalletInv == Init => WalletInv
<1> SUFFICES ASSUME Init PROVE WalletInv
  OBVIOUS
<1>1. NodeTypes /\ MinedOnce
  <2>1. [balances |-> [a \in Accounts |-> Opening], txs |-> {}] \in Blocks
    BY WeiAreNumbers DEF Blocks
  <2> QED
    BY <2>1 DEF Init, NodeTypes, MinedOnce, Height
<1>2. CallInv /\ SentInv
  BY DEF Init, CallInv, SentInv, PcValues
<1>3. AnswerInv
  BY DEF Init, AnswerInv, AttestedTransferIsOnTheChain, Attested, None
<1> QED
  BY <1>1, <1>2, <1>3 DEF WalletInv

LEMMA StepWalletInv == WalletInv /\ [Next]_vars => WalletInv'
<1> SUFFICES ASSUME WalletInv, [Next]_vars PROVE WalletInv'
  OBVIOUS
<1>1. CASE UNCHANGED vars
  <2>1. UNCHANGED <<chain, pool, reverted, dropped, txs, pc, req, block, answer>>
    BY <1>1 DEF vars, node
  <2>2. NodeTypes' /\ MinedOnce' /\ CallInv' /\ SentInv'
    BY <2>1 DEF WalletInv, NodeTypes, MinedOnce, CallInv, SentInv, Height, TxFor
  <2>3. NodeGoesOn
    BY <2>1 DEF NodeGoesOn, Height, WalletInv, NodeTypes
  <2>4. AnswerInv'
    BY <2>1, <2>2, <2>3, AnswersKept
  <2> QED
    BY <2>2, <2>4 DEF WalletInv
<1> QED
  BY <1>1, NodeWalletInv, CallWalletInv DEF Next

LEMMA WalletInvariant == Spec => []WalletInv
BY InitWalletInv, StepWalletInv, PTL DEF Spec

-----------------------------------------------------------------------------
(* The theorems *)

\* A balance that get_balance attests is the balance in the block it names, in
\* whole milli-ETH rounded down, however the chain has grown meanwhile.
THEOREM BalancesAreOfTheirBlock == Spec => []AttestedBalanceIsOfItsBlock
<1>1. WalletInv => AttestedBalanceIsOfItsBlock
  <2> SUFFICES ASSUME WalletInv, NEW c \in CallIds, Attested(c, "get_balance")
               PROVE  LET wei == chain[answer[c].block].balances[req[c].address]
                          milli == answer[c].value
                      IN  /\ milli * MILLI_ETH_WEI <= wei /\ milli <= I64Max
                          /\ milli < I64Max => wei < (milli + 1) * MILLI_ETH_WEI
    BY DEF AttestedBalanceIsOfItsBlock
  <2> DEFINE wei == chain[answer[c].block].balances[req[c].address]
  <2>1. answer[c].block \in 1..Len(chain) /\ req[c].address \in Accounts
        /\ answer[c].value = eth_milli(wei)
    BY DEF WalletInv, AnswerInv, Height
  <2>2. chain[answer[c].block] \in Blocks
    BY <2>1 DEF WalletInv, NodeTypes
  <2>3. wei \in Int
    BY <2>1, <2>2 DEF Blocks
  <2> HIDE DEF wei
  <2>4. /\ answer[c].value * MILLI_ETH_WEI <= wei /\ answer[c].value <= I64Max
        /\ answer[c].value < I64Max => wei < (answer[c].value + 1) * MILLI_ETH_WEI
    BY <2>1, <2>3, EthMilliRoundsDown
  <2> QED
    BY <2>4 DEF wei
<1> QED
  BY <1>1, WalletInvariant, PTL

\* A transfer that is attested is mined in the block it names, and is the one
\* this call sent.
THEOREM TransfersAreOnTheChain == Spec => []AttestedTransferIsOnTheChain
<1>1. WalletInv => AttestedTransferIsOnTheChain
  BY DEF WalletInv, AnswerInv
<1> QED
  BY <1>1, WalletInvariant, PTL

\* No call of the wallet sends two transactions, and only a transfer whose
\* arguments fit sends one.
THEOREM CallsSpendOnce == Spec => []NoCallSpendsTwice
<1>1. WalletInv => NoCallSpendsTwice
  BY DEF WalletInv, SentInv, NoCallSpendsTwice
<1> QED
  BY <1>1, WalletInvariant, PTL
=============================================================================
