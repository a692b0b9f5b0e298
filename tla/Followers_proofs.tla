--------------------------- MODULE Followers_proofs ---------------------------
(* Proofs about the API on read followers: whatever the handlers read in old *)
(* copies, the invariants of Tapapp hold on the master, the API implements   *)
(* Ledger, and a creation is answered with its order or with nothing.        *)
EXTENDS Followers, Items_proofs, Payments_proofs

-----------------------------------------------------------------------------
(* The inductive invariant behind FollowersTypeOK, FinishedIsPaid,           *)
(* ImplementsLedger and CreateAnswersAllOrNothing: that of Tapapp on the     *)
(* master, and what a handler may rely on in a copy, however old.            *)

Tables == [orders   : [OrderIds -> OrderRow \cup {Null}],
           items    : [ItemIds -> ItemRow \cup {Null}],
           payments : [PaymentIds -> PaymentRow \cup {Null}]]

\* A payment that was copied is still there, for the same order.
PaymentsCopied(f) ==
    \A p \in PaymentIds : copies[f].payments[p] # Null =>
        /\ payments[p] # Null
        /\ payments[p].order = copies[f].payments[p].order
        /\ payments[p].type = copies[f].payments[p].type

\* An item that was copied belongs to a request that is past its checks, and
\* was at home.
ItemsCopied(f) ==
    \A i \in ItemIds : copies[f].items[i] # Null =>
        /\ oreq[i[1]].pc \notin NoItemYet
        /\ copies[f].items[i].order \in {oreq[i[1]].order, Null}

\* None of the items of a creation has been copied before they are saved, and
\* then none or all.
CreationCopied(f, r) ==
    oreq[r].cmd = "create" =>
        /\ oreq[r].pc \in {"checkName", "saveOrder", "saveItems"} =>
              \A p \in Products : copies[f].items[<<r, p>>] = Null
        /\ oreq[r].pc = "respond" =>
              \/ \A p \in Products : copies[f].items[<<r, p>>] = Null
              \/ \A p \in Products : copies[f].items[<<r, p>>] = items[<<r, p>>]

CopyShapeOf(f) ==
    PaymentsCopied(f) /\ ItemsCopied(f) /\ \A r \in OrderRequests : CreationCopied(f, r)

CopyInv ==
    /\ copies \in [Followers -> Tables]
    /\ \A f \in Followers : CopyShapeOf(f)

FollowersIInv == IInv /\ ItemInv /\ AnswerInv /\ CopyInv

-----------------------------------------------------------------------------
\* What every step grants to the copies of items: beyond Forward, a creation
\* saves its items in one go before it is answered.
SavesTogether ==
    \A r \in OrderRequests : oreq'[r].cmd = "create" =>
        /\ oreq'[r].pc \in {"checkName", "saveOrder", "saveItems"} =>
              oreq[r].pc \in {"idle", "checkName", "saveOrder", "saveItems"}
        /\ oreq'[r].pc = "respond" => oreq'[r] = oreq[r] \/ oreq[r].pc = "saveItems"

\* The step of one orders handler, as far as the others and the copies see it.
Moves(r) ==
    /\ Alone(r)
    /\ oreq[r].pc \in OrderOpenPcs /\ oreq'[r].pc # "idle"
    /\ oreq'[r].cmd = oreq[r].cmd /\ oreq'[r].order = oreq[r].order
    /\ oreq[r].pc \notin NoItemYet => oreq'[r].pc \notin NoItemYet
    /\ oreq[r].cmd = "create" =>
          /\ oreq[r].pc \notin NoOrderYet => oreq'[r].pc \notin NoOrderYet
          /\ oreq'[r].pc \in {"checkName", "saveOrder", "saveItems"} =>
                oreq[r].pc \in {"checkName", "saveOrder"}
          /\ oreq'[r].pc = "respond" => oreq[r].pc = "saveItems"

LEMMA MovesForward ==
    ASSUME IInv, NEW r \in OrderRequests, Moves(r)
    PROVE  Forward /\ SavesTogether
<1>1. Forward
  BY OneForward DEF Moves
<1>2. SavesTogether
  BY DEF Moves, Alone, SavesTogether
<1> QED
  BY <1>1, <1>2

-----------------------------------------------------------------------------
(* The copies.                                                               *)

\* The tables of a follower have the types of the master's.
LEMMA CopyTypes ==
    ASSUME CopyInv, NEW f \in Followers
    PROVE  /\ copies[f].orders \in [OrderIds -> OrderRow \cup {Null}]
           /\ copies[f].items \in [ItemIds -> ItemRow \cup {Null}]
           /\ copies[f].payments \in [PaymentIds -> PaymentRow \cup {Null}]
           /\ View(f)!DatabaseTypeOK
<1>1. copies[f] \in Tables
  BY DEF CopyInv
<1>2. /\ View(f)!OrderIds = OrderIds /\ View(f)!ItemIds = ItemIds /\ View(f)!PaymentIds = PaymentIds
  BY DEF View!OrderIds, View!ItemIds, View!PaymentIds, OrderIds, ItemIds, PaymentIds
<1>3. View(f)!OrderRow = OrderRow
  BY DEF View!OrderRow, OrderRow
<1>4. View(f)!ItemRow = ItemRow
  BY <1>2 DEF View!ItemRow, ItemRow
<1>5. View(f)!PaymentRow = PaymentRow
  BY <1>2 DEF View!PaymentRow, PaymentRow, View!PaymentTypes, PaymentTypes,
     View!PaymentStatuses, PaymentStatuses, View!PayconiqStatuses, PayconiqStatuses
<1>6. View(f)!DatabaseTypeOK
  BY <1>1, <1>2, <1>3, <1>4, <1>5 DEF View!DatabaseTypeOK, Tables
<1> QED
  BY <1>1, <1>6 DEF Tables

\* Old copies of the items of a creation stay what they are: they do not grow,
\* and what the creation has saved does not change before it is answered.
LEMMA CreationCopyKept ==
    ASSUME AnswerInv, AnswerInv', Forward, SavesTogether, IInv, IInv',
           NEW f \in Followers, CopyShapeOf(f), copies'[f] = copies[f],
           NEW r \in OrderRequests
    PROVE  CreationCopied(f, r)'
<1> SUFFICES ASSUME oreq'[r].cmd = "create"
             PROVE  CreationCopied(f, r)'
  BY DEF CreationCopied
<1>1. /\ CreationCopied(f, r) /\ ItemsCopied(f)
      /\ oreq[r].pc # "idle" => oreq[r].cmd = "create"
  BY DEF CopyShapeOf, Forward
<1>2. oreq[r].pc = "idle" => \A p \in Products : copies[f].items[<<r, p>>] = Null
  BY <1>1 DEF ItemsCopied, ItemIds, NoItemYet
<1>3. ASSUME oreq'[r].pc \in {"checkName", "saveOrder", "saveItems"}
      PROVE  \A p \in Products : copies'[f].items[<<r, p>>] = Null
  BY <1>1, <1>2, <1>3 DEF SavesTogether, CreationCopied
<1>4. ASSUME oreq'[r].pc = "respond"
      PROVE  \/ \A p \in Products : copies'[f].items[<<r, p>>] = Null
             \/ \A p \in Products : copies'[f].items[<<r, p>>] = items'[<<r, p>>]
  <2>1. CASE oreq[r].pc = "saveItems"
    BY <1>1, <2>1 DEF CreationCopied
  <2>2. CASE oreq'[r] = oreq[r]
    <3>1. /\ CreationShapeOf(r) /\ CreationShapeOf(r)'
          /\ oreq[r].pc = "respond" /\ oreq[r].cmd = "create"
      BY <1>4, <2>2 DEF AnswerInv, CreationShape
    <3>2. ASSUME NEW p \in Products
          PROVE  items'[<<r, p>>] = items[<<r, p>>]
      <4>1. ASSUME NEW l \in oreq[r].lines, l.product = p
            PROVE  items'[<<r, p>>] = items[<<r, p>>]
        <5>1. items[<<r, l.product>>] =
                  [amount |-> l.amount, product |-> l.product, order |-> r]
          BY <3>1 DEF CreationShapeOf
        <5>2. items'[<<r, l.product>>] =
                  [amount |-> l.amount, product |-> l.product, order |-> r]
          BY <2>2, <3>1 DEF CreationShapeOf
        <5> QED
          BY <4>1, <5>1, <5>2
      <4>2. CASE ~\E l \in oreq[r].lines : l.product = p
        BY <2>2, <3>1, <4>2 DEF CreationShapeOf
      <4> QED
        BY <4>1, <4>2
    <3> QED
      BY <1>1, <3>1, <3>2 DEF CreationCopied
  <2> QED
    BY <1>4, <2>1, <2>2 DEF SavesTogether
<1> QED
  BY <1>3, <1>4 DEF CreationCopied

\* A copy stays right while the master goes on.
LEMMA OldCopyKept ==
    ASSUME AnswerInv, AnswerInv', Forward, SavesTogether, IInv, IInv', PaymentsPersist,
           NEW f \in Followers, CopyShapeOf(f), copies'[f] = copies[f]
    PROVE  CopyShapeOf(f)'
<1>1. PaymentsCopied(f)'
  BY DEF CopyShapeOf, PaymentsCopied, PaymentsPersist
<1>2. ItemsCopied(f)'
  <2> SUFFICES ASSUME NEW i \in ItemIds, copies[f].items[i] # Null
               PROVE  /\ oreq'[i[1]].pc \notin NoItemYet
                      /\ copies[f].items[i].order \in {oreq'[i[1]].order, Null}
    BY DEF ItemsCopied
  <2>1. /\ oreq[i[1]].pc \notin NoItemYet
        /\ copies[f].items[i].order \in {oreq[i[1]].order, Null}
    BY DEF CopyShapeOf, ItemsCopied
  <2>2. i[1] \in OrderRequests /\ oreq[i[1]].pc # "idle"
    BY <2>1, OwnerIsRequest DEF NoItemYet
  <2> QED
    BY <2>1, <2>2 DEF Forward
<1>3. \A r \in OrderRequests : CreationCopied(f, r)'
  BY CreationCopyKept
<1> QED
  BY <1>1, <1>2, <1>3 DEF CopyShapeOf

LEMMA OldCopiesKept ==
    ASSUME AnswerInv, AnswerInv', Forward, SavesTogether, IInv, IInv', PaymentsPersist,
           CopyInv, UNCHANGED copies
    PROVE  CopyInv'
BY OldCopyKept DEF CopyInv

\* The master's own tables are a right copy.
LEMMA MasterIsCopy ==
    ASSUME IInv, ItemInv, AnswerInv, NEW f \in Followers, copies[f] = Master
    PROVE  CopyShapeOf(f) /\ copies[f] \in Tables
<1>1. /\ copies[f].orders = orders /\ copies[f].items = items /\ copies[f].payments = payments
      /\ copies[f] \in Tables
  BY DEF Master, Tables, IInv, TypeOK, DatabaseTypeOK
<1>2. PaymentsCopied(f)
  BY <1>1 DEF PaymentsCopied
<1>3. ItemsCopied(f)
  BY <1>1, OwnerIsPastChecks DEF ItemsCopied
<1>4. \A r \in OrderRequests : CreationCopied(f, r)
  BY <1>1 DEF CreationCopied, AnswerInv, CreationShape, CreationShapeOf
<1> QED
  BY <1>1, <1>2, <1>3, <1>4 DEF CopyShapeOf

-----------------------------------------------------------------------------
(* What the orders handlers read in a copy.                                  *)

\* A handler that goes on with what it has read: a row and some items.
Reload(r, pc, row, loaded, bare) ==
    oreq' = [oreq EXCEPT ![r] = [@ EXCEPT !.pc = pc, !.row = row,
                                          !.loaded = loaded, !.bare = bare]]

\* What it may have read.
MayReload(r, pc, row, loaded, bare) ==
    /\ oreq[r].cmd \in {"update", "delete"}
    /\ \/ oreq[r].pc = "find" /\ pc \in {"checkName", "deleteItems"} /\ row # Null
       \/ oreq[r].pc = "findItems" /\ pc = "updateItems"
    /\ row \in OrderRow \cup {Null} /\ (row # Null => ~row.isFinished)
    /\ loaded \subseteq ItemIds /\ bare \subseteq ItemIds
    /\ \A i \in loaded : /\ oreq[i[1]].pc \notin NoItemYet
                         /\ pc = "checkName" => oreq[i[1]].order = oreq[r].order
                         /\ Disclosed(i[1])

LEMMA ReloadRecord ==
    ASSUME IInv, NEW r \in OrderRequests, NEW pc, NEW row, NEW loaded, NEW bare,
           MayReload(r, pc, row, loaded, bare), Reload(r, pc, row, loaded, bare)
    PROVE  /\ oreq'[r] \in OrderRequest /\ OrdersTypeOK' /\ Alone(r)
           /\ oreq'[r].pc = pc /\ oreq'[r].row = row /\ oreq'[r].loaded = loaded
           /\ oreq'[r].cmd = oreq[r].cmd /\ oreq'[r].order = oreq[r].order
           /\ oreq'[r].lines = oreq[r].lines /\ oreq'[r].organisation = oreq[r].organisation
<1>1. oreq \in [OrderRequests -> OrderRequest] /\ oreq[r] \in OrderRequest
  BY DEF IInv, TypeOK, OrdersTypeOK
<1>2. oreq'[r] = [oreq[r] EXCEPT !.pc = pc, !.row = row, !.loaded = loaded, !.bare = bare]
  BY <1>1 DEF Reload
<1>3. pc \in OrderOpenPcs /\ row \in OrderRow \cup {Null}
      /\ loaded \subseteq ItemIds /\ bare \subseteq ItemIds
  BY DEF MayReload, OrderOpenPcs
<1>4. oreq'[r] \in OrderRequest
  BY <1>1, <1>2, <1>3, ZenonT(40) DEF OrderRequest
<1>5. OrdersTypeOK' /\ Alone(r)
  BY <1>1, <1>4 DEF Reload, OrdersTypeOK, Alone
<1> QED
  BY <1>1, <1>2, <1>4, <1>5 DEF OrderRequest

LEMMA ReloadMoves ==
    ASSUME IInv, NEW r \in OrderRequests, NEW pc, NEW row, NEW loaded, NEW bare,
           MayReload(r, pc, row, loaded, bare), Reload(r, pc, row, loaded, bare)
    PROVE  Moves(r)
BY ReloadRecord DEF Moves, MayReload, OrderOpenPcs, NoItemYet, NoOrderYet

LEMMA ReloadKeepsIInv ==
    ASSUME IInv, NEW r \in OrderRequests, NEW pc, NEW row, NEW loaded, NEW bare,
           MayReload(r, pc, row, loaded, bare), Reload(r, pc, row, loaded, bare),
           UNCHANGED database, UNCHANGED <<preq, hreq, payconiqVars>>
    PROVE  IInv'
<1>1. /\ OrdersTypeOK' /\ Alone(r) /\ OrderShape
      /\ oreq'[r].pc = pc /\ oreq'[r].row = row
      /\ oreq'[r].cmd = oreq[r].cmd /\ oreq'[r].order = oreq[r].order
  BY ReloadRecord DEF IInv
<1>2. /\ oreq[r].pc # "idle" /\ pc # "saveOrder" /\ (row # Null => ~row.isFinished)
      /\ pc = "checkName" => row # Null
  BY DEF MayReload
<1>3. OrderShape'
  BY <1>1, <1>2 DEF OrderShape, At, Alone
<1> QED
  BY <1>1, <1>3, OrderReadKeepsIInv

LEMMA ReloadKeepsItemInv ==
    ASSUME IInv, ItemInv, NEW r \in OrderRequests, NEW pc, NEW row, NEW loaded, NEW bare,
           MayReload(r, pc, row, loaded, bare), Reload(r, pc, row, loaded, bare),
           UNCHANGED database
    PROVE  ItemInv'
<1>1. /\ Alone(r) /\ oreq'[r].pc = pc /\ oreq'[r].loaded = loaded
      /\ oreq'[r].cmd = oreq[r].cmd /\ oreq'[r].order = oreq[r].order
  BY ReloadRecord
<1>2. Forward /\ ItemStep /\ OrderRowStep
  BY ReloadMoves, MovesForward, ReadOnly
<1>3. /\ oreq[r].pc # "idle" /\ oreq[r].cmd \in {"update", "delete"} /\ pc # "saveOrder"
      /\ oreq[r].order \in OrderRequests
  BY DEF MayReload, IInv, OrderShape, OrderIds
<1>4. At(oreq[r].order, "create", "done")
  BY <1>3 DEF ItemInv, HomeShape, HomeShapeOf
<1>5. At(oreq[r].order, "create", "done")'
  BY <1>1, <1>2, <1>3, <1>4 DEF Forward, At
<1>6. ASSUME NEW i \in loaded
      PROVE  /\ oreq'[i[1]].pc \notin NoItemYet
             /\ pc = "checkName" => oreq'[i[1]].order = oreq[r].order
  <2>1. /\ oreq[i[1]].pc \notin NoItemYet /\ i[1] \in OrderRequests
        /\ pc = "checkName" => oreq[i[1]].order = oreq[r].order
    BY OwnerIsRequest DEF MayReload
  <2>2. oreq[i[1]].pc # "idle"
    BY <2>1 DEF NoItemYet
  <2> QED
    BY <1>2, <2>1, <2>2 DEF Forward
<1>7. HomeShapeOf(r)'
  BY <1>1, <1>3, <1>5, <1>6 DEF HomeShapeOf, At
<1> QED
  BY <1>1, <1>2, <1>7, StepKeepsItemInv

LEMMA ReloadKeepsAnswerInv ==
    ASSUME IInv, AnswerInv, NEW r \in OrderRequests, NEW pc, NEW row, NEW loaded, NEW bare,
           MayReload(r, pc, row, loaded, bare), Reload(r, pc, row, loaded, bare),
           UNCHANGED database
    PROVE  AnswerInv'
<1>1. /\ Alone(r) /\ oreq'[r].pc = pc /\ oreq'[r].loaded = loaded
      /\ oreq'[r].cmd = oreq[r].cmd /\ oreq'[r].order = oreq[r].order
      /\ oreq'[r].lines = oreq[r].lines /\ oreq'[r].organisation = oreq[r].organisation
  BY ReloadRecord
<1>2. /\ oreq[r].pc \in OrderOpenPcs /\ oreq[r].pc # "idle" /\ oreq'[r].pc # "idle"
      /\ oreq[r].cmd # "create" /\ UNCHANGED <<orders, items>>
  BY <1>1 DEF MayReload, OrderOpenPcs, database
<1>3. GoesOn
  BY <1>1, <1>2, OneGoesOn
<1>4. \A i \in oreq'[r].loaded : Disclosed(i[1])'
  BY <1>1, <1>3, OwnerIsRequest, DisclosedForGood DEF MayReload
<1>5. ASSUME NEW l \in oreq'[r].lines, l.item # Null
      PROVE  Disclosed(l.item[1])'
  BY <1>1, <1>2, <1>3, <1>5, OwnersAreRequests, DisclosedForGood DEF AnswerInv, SecretsKept,
     SecretsKeptBy
<1>6. SecretsKeptBy(r)' /\ CreationShapeOf(r)'
  BY <1>1, <1>2, <1>4, <1>5 DEF SecretsKeptBy, CreationShapeOf
<1> QED
  BY <1>1, <1>2, <1>3, <1>6, NothingDisturbed, StepKeepsAnswerInv

\* Every orders handler that reads ends, goes on to save its order, or goes on
\* with what it has read.
EndsOnRead(r) ==
    \E outcome \in {"rejected", "failed", "empty", "done"} :
        /\ End(r, outcome) /\ oreq[r].pc \in OrderOpenPcs
        /\ outcome = "rejected" =>
              oreq[r].pc = "checkName" \/ (oreq[r].pc = "find" /\ oreq[r].cmd # "create")

GoesOnToSave(r) ==
    /\ Goto(r, "saveOrder") /\ oreq[r].pc = "checkName"
    /\ \/ oreq[r].cmd = "update"
       \/ oreq[r].cmd = "create" /\ AcceptsLines(oreq[r].lines)

Reloads(r) ==
    \E pc, row, loaded, bare :
        MayReload(r, pc, row, loaded, bare) /\ Reload(r, pc, row, loaded, bare)

\* A copied item that was linked to an order that has been answered may be come
\* across.
LEMMA CopiedIsDisclosed ==
    ASSUME IInv, ItemInv, NEW f \in Followers, CopyShapeOf(f),
           NEW o \in OrderIds, At(o, "create", "done"),
           NEW i \in ItemIds, copies[f].items[i] # Null, copies[f].items[i].order = o
    PROVE  Disclosed(i[1]) /\ oreq[i[1]].pc \notin NoItemYet /\ oreq[i[1]].order = o
<1>1. oreq[i[1]].pc \notin NoItemYet /\ oreq[i[1]].order = o /\ i[1] \in OrderRequests
  BY OwnerIsRequest, NullAssumption DEF CopyShapeOf, ItemsCopied
<1>2. oreq[i[1]].pc # "idle"
  BY <1>1 DEF NoItemYet
<1>3. oreq[i[1]].cmd \in {"create", "update", "delete"}
  BY <1>1, <1>2 DEF IInv, TypeOK, OrdersTypeOK, OrderShape, OrderRequest
<1>4. oreq[i[1]].cmd = "create" => i[1] = o
  BY <1>1, <1>2 DEF ItemInv, HomeShape, HomeShapeOf
<1> QED
  BY <1>1, <1>2, <1>3, <1>4 DEF Disclosed, At, EndPcs

\* An old copy of an unfinished order and of its items may be worked with.
LEMMA FindInCopy ==
    ASSUME IInv, ItemInv, CopyInv, NEW r \in OrderRequests, NEW f \in Followers,
           oreq[r].cmd \in {"update", "delete"}, oreq[r].pc = "find",
           NEW pc \in {"checkName", "deleteItems"}, View(f)!FindUnfinished(r, pc)
    PROVE  EndsOnRead(r) \/ Reloads(r)
<1> DEFINE o == oreq[r].order
           row == copies[f].orders[o]
           loaded == View(f)!ItemsOf(o)
           bare == {i \in loaded : copies[f].items[i].product = Null}
<1>1. /\ At(o, "create", "done") /\ o \in OrderIds
      /\ copies[f].orders \in [OrderIds -> OrderRow \cup {Null}] /\ CopyShapeOf(f)
  BY CopyTypes DEF ItemInv, HomeShape, HomeShapeOf, IInv, OrderShape, CopyInv
<1>2. CASE View(f)!FoundUnfinished(o, oreq[r].organisation)
  <2>1. Reload(r, pc, row, loaded, bare)
    BY <1>2 DEF View!FindUnfinished, Reload
  <2>2. row # Null /\ ~row.isFinished /\ row \in OrderRow
    BY <1>1, <1>2 DEF View!FoundUnfinished, View!OrderFound
  <2>3. \A i \in loaded : i \in ItemIds /\ copies[f].items[i] # Null /\ copies[f].items[i].order = o
    BY DEF View!ItemsOf, View!ItemIds, ItemIds
  <2>4. loaded \subseteq ItemIds /\ bare \subseteq ItemIds
    BY <2>3
  <2> HIDE DEF loaded, bare, row
  <2>5. \A i \in loaded : /\ Disclosed(i[1]) /\ oreq[i[1]].pc \notin NoItemYet
                          /\ oreq[i[1]].order = o
    BY <1>1, <2>3, CopiedIsDisclosed
  <2>6. MayReload(r, pc, row, loaded, bare)
    BY <2>2, <2>4, <2>5 DEF MayReload
  <2> QED
    BY <2>1, <2>6 DEF Reloads
<1>3. CASE ~View(f)!FoundUnfinished(o, oreq[r].organisation)
  <2>1. End(r, "rejected")
    BY <1>3 DEF View!FindUnfinished, View!End, End
  <2> QED
    BY <2>1 DEF EndsOnRead, OrderOpenPcs
<1> QED
  BY <1>2, <1>3

\* So may the items that the request names and the copy has.
LEMMA FindItemsInCopy ==
    ASSUME IInv, AnswerInv, CopyInv, NEW r \in OrderRequests, NEW f \in Followers,
           View(f)!UpdateFindItems(r)
    PROVE  Reloads(r)
<1> DEFINE found == {i \in ItemIds : /\ copies[f].items[i] # Null
                                     /\ \E l \in oreq[r].lines : l.item = i}
           row == oreq[r].row
<1>1. /\ oreq[r].cmd = "update" /\ oreq[r].pc = "findItems"
      /\ oreq' = [oreq EXCEPT ![r] = [@ EXCEPT !.pc = "updateItems", !.bare = {},
                                               !.loaded = found]]
  BY DEF View!UpdateFindItems, View!At, View!ItemIds, ItemIds
<1>2. \A i \in found : /\ i \in ItemIds /\ Disclosed(i[1]) /\ oreq[i[1]].pc \notin NoItemYet
  BY <1>1, NullAssumption DEF AnswerInv, SecretsKept, SecretsKeptBy, CopyInv, CopyShapeOf,
     ItemsCopied
<1> HIDE DEF found
<1>3. oreq[r] \in OrderRequest /\ row \in OrderRow \cup {Null} /\ (row # Null => ~row.isFinished)
  BY DEF IInv, TypeOK, OrdersTypeOK, OrderShape, OrderRequest
<1>4. MayReload(r, "updateItems", row, found, {})
  BY <1>1, <1>2, <1>3 DEF MayReload
<1>5. [oreq[r] EXCEPT !.pc = "updateItems", !.bare = {}, !.loaded = found]
         = [oreq[r] EXCEPT !.pc = "updateItems", !.row = row, !.loaded = found, !.bare = {}]
  BY <1>3 DEF OrderRequest
<1>6. Reload(r, "updateItems", row, found, {})
  BY <1>1, <1>5 DEF Reload
<1> QED
  BY <1>4, <1>6 DEF Reloads

\* The checks accept the same lines whichever copy they read.
LEMMA OrderReadCases ==
    ASSUME IInv, ItemInv, AnswerInv, CopyInv, NEW r \in OrderRequests, NEW f \in Followers,
           OrderReads(r, f)
    PROVE  EndsOnRead(r) \/ GoesOnToSave(r) \/ Reloads(r)
<1>1. CASE View(f)!CreateCheck(r)
  <2>1. oreq[r].cmd = "create" /\ oreq[r].pc = "checkName"
    BY <1>1 DEF View!CreateCheck, View!At
  <2>2. \/ End(r, "failed") \/ End(r, "rejected")
        \/ Goto(r, "saveOrder") /\ AcceptsLines(oreq[r].lines)
    BY <1>1 DEF View!CreateCheck, View!End, End, View!Goto, Goto, View!AcceptsLines, AcceptsLines,
       View!Catalogue, Catalogue
  <2> QED
    BY <2>1, <2>2 DEF EndsOnRead, GoesOnToSave, OrderOpenPcs
<1>2. CASE View(f)!UpdateCheck(r)
  <2>1. oreq[r].cmd = "update" /\ oreq[r].pc = "checkName"
    BY <1>2 DEF View!UpdateCheck, View!At
  <2>2. End(r, "failed") \/ End(r, "rejected") \/ Goto(r, "saveOrder")
    BY <1>2 DEF View!UpdateCheck, View!End, End, View!Goto, Goto
  <2> QED
    BY <2>1, <2>2 DEF EndsOnRead, GoesOnToSave, OrderOpenPcs
<1>3. CASE View(f)!UpdateFind(r)
  BY <1>3, FindInCopy DEF View!UpdateFind, View!At
<1>4. CASE View(f)!DeleteFind(r)
  BY <1>4, FindInCopy DEF View!DeleteFind, View!At
<1>5. CASE View(f)!UpdateFindItems(r)
  BY <1>5, FindItemsInCopy
<1>6. CASE View(f)!Respond(r)
  <2>1. oreq[r].pc = "respond" /\ (End(r, "empty") \/ End(r, "done"))
    BY <1>6 DEF View!Respond, View!End, End
  <2> QED
    BY <2>1 DEF EndsOnRead, OrderOpenPcs
<1> QED
  BY <1>1, <1>2, <1>3, <1>4, <1>5, <1>6 DEF OrderReads

-----------------------------------------------------------------------------
(* Such a step keeps the invariants of the master.                           *)

LEMMA EndMoves ==
    ASSUME IInv, NEW r \in OrderRequests, NEW outcome \in EndPcs,
           oreq[r].pc \in OrderOpenPcs, End(r, outcome),
           outcome = "rejected" =>
               oreq[r].pc = "checkName" \/ (oreq[r].pc = "find" /\ oreq[r].cmd # "create")
    PROVE  Moves(r)
<1>1. /\ oreq'[r].pc = outcome /\ oreq'[r].pc # "idle" /\ Alone(r)
      /\ oreq'[r].cmd = oreq[r].cmd /\ oreq'[r].order = oreq[r].order
  BY DEF End, IInv, TypeOK, OrdersTypeOK, OrderRequest, Alone, EndPcs
<1> QED
  BY <1>1 DEF Moves, EndPcs, NoItemYet, NoOrderYet

\* An update or a deletion never comes back to its checks, and a creation is
\* answered once its items are saved.
LEMMA GotoMoves ==
    ASSUME IInv, NEW r \in OrderRequests, NEW pc \in OrderOpenPcs,
           oreq[r].pc \in OrderOpenPcs, Goto(r, pc),
           pc \notin {"find", "checkName"}, pc = "saveOrder" => oreq[r].pc = "checkName",
           oreq[r].cmd = "create" => /\ pc = "saveItems" => oreq[r].pc = "saveOrder"
                                     /\ pc = "respond" => oreq[r].pc = "saveItems"
    PROVE  Moves(r)
<1>1. /\ oreq'[r].pc = pc /\ oreq'[r].pc # "idle" /\ Alone(r)
      /\ oreq'[r].cmd = oreq[r].cmd /\ oreq'[r].order = oreq[r].order
  BY DEF Goto, IInv, TypeOK, OrdersTypeOK, OrderRequest, Alone, OrderOpenPcs
<1> QED
  BY <1>1 DEF Moves, OrderOpenPcs, NoItemYet, NoOrderYet

LEMMA EndsOnReadKeeps ==
    ASSUME IInv, ItemInv, AnswerInv, NEW r \in OrderRequests, EndsOnRead(r),
           UNCHANGED database, UNCHANGED <<preq, hreq, payconiqVars>>
    PROVE  IInv' /\ ItemInv' /\ AnswerInv' /\ Moves(r)
<1>1. PICK outcome \in {"rejected", "failed", "empty", "done"} :
         /\ End(r, outcome) /\ oreq[r].pc \in OrderOpenPcs
         /\ outcome = "rejected" =>
               oreq[r].pc = "checkName" \/ (oreq[r].pc = "find" /\ oreq[r].cmd # "create")
  BY DEF EndsOnRead
<1>2. /\ OrdersTypeOK /\ OrderShape /\ oreq[r].pc # "idle" /\ outcome \in EndPcs
      /\ UNCHANGED <<orders, items>> /\ ItemStep /\ OrderRowStep
  BY <1>1, ReadOnly DEF IInv, TypeOK, OrderOpenPcs, EndPcs, database
<1>3. IInv'
  BY <1>1, <1>2, EndKeepsOrderShape, OrderReadKeepsIInv
<1>4. ItemInv'
  BY <1>1, <1>2, EndKeepsItemInv
<1>5. AnswerInv'
  BY <1>1, <1>2, NothingDisturbed, EndKeepsAnswerInv
<1> QED
  BY <1>1, <1>2, <1>3, <1>4, <1>5, EndMoves

LEMMA GoesOnToSaveKeeps ==
    ASSUME IInv, ItemInv, AnswerInv, NEW r \in OrderRequests, GoesOnToSave(r),
           UNCHANGED database, UNCHANGED <<preq, hreq, payconiqVars>>
    PROVE  IInv' /\ ItemInv' /\ AnswerInv' /\ Moves(r)
<1>1. /\ Goto(r, "saveOrder") /\ oreq[r].pc = "checkName"
      /\ "saveOrder" \in OrderOpenPcs /\ oreq[r].pc \in OrderOpenPcs
      /\ UNCHANGED <<orders, items>> /\ ItemStep /\ OrderRowStep
  BY ReadOnly DEF GoesOnToSave, OrderOpenPcs, database
<1>2. /\ OrdersTypeOK /\ OrderShape /\ oreq[r].pc # "idle"
      /\ oreq[r].cmd = "update" => oreq[r].row # Null
  BY <1>1 DEF IInv, TypeOK, OrderShape, At
<1>3. IInv'
  BY <1>1, <1>2, GotoKeepsOrderShape, OrderReadKeepsIInv
<1>4. ItemInv'
  BY <1>1, GotoKeepsItemInv
<1>5. AnswerInv'
  <2>1. oreq'[r].pc = "saveOrder" /\ oreq'[r].cmd = oreq[r].cmd /\ oreq'[r].lines = oreq[r].lines
    BY <1>1, <1>2, GotoGoesOn DEF GoesOn
  <2>2. oreq[r].cmd # "create" \/ CreationShapeOf(r)'
    BY <1>1, <2>1 DEF GoesOnToSave, AnswerInv, CreationShape, CreationShapeOf
  <2> QED
    BY <1>1, <2>2, NothingDisturbed, GotoKeepsAnswerInv
<1> QED
  BY <1>1, <1>3, <1>4, <1>5, GotoMoves

LEMMA ReloadsKeeps ==
    ASSUME IInv, ItemInv, AnswerInv, NEW r \in OrderRequests, Reloads(r),
           UNCHANGED database, UNCHANGED <<preq, hreq, payconiqVars>>
    PROVE  IInv' /\ ItemInv' /\ AnswerInv' /\ Moves(r)
<1>1. PICK pc, row, loaded, bare :
         MayReload(r, pc, row, loaded, bare) /\ Reload(r, pc, row, loaded, bare)
  BY DEF Reloads
<1> QED
  BY <1>1, ReloadKeepsIInv, ReloadKeepsItemInv, ReloadKeepsAnswerInv, ReloadMoves

\* What an orders handler reads at a follower keeps the invariant.
LEMMA OrderReadsKeepInvariant ==
    ASSUME FollowersIInv, NEW r \in OrderRequests, NEW f \in Followers, OrderReads(r, f),
           UNCHANGED <<preq, hreq, payconiqVars>>
    PROVE  FollowersIInv'
<1>1. /\ IInv /\ ItemInv /\ AnswerInv /\ CopyInv
      /\ UNCHANGED database /\ UNCHANGED payments /\ UNCHANGED copies
  BY DEF FollowersIInv, OrderReads, database
<1>2. IInv' /\ ItemInv' /\ AnswerInv' /\ Moves(r)
  BY <1>1, OrderReadCases, EndsOnReadKeeps, GoesOnToSaveKeeps, ReloadsKeeps
<1>3. CopyInv'
  BY <1>1, <1>2, MovesForward, PaymentsUnchangedPersist, OldCopiesKept
<1> QED
  BY <1>2, <1>3 DEF FollowersIInv

-----------------------------------------------------------------------------
(* What the orders handlers write at the master.                             *)

LEMMA OrderWriteMoves ==
    ASSUME IInv, NEW r \in OrderRequests, OrderWrites(r)
    PROVE  Moves(r) /\ UNCHANGED payments
<1>1. /\ "done" \in EndPcs /\ "failed" \in EndPcs
      /\ {"saveOrder", "saveItems", "respond", "deleteItems", "createItems", "findItems",
          "updateItems", "deleteOrder"} \subseteq OrderOpenPcs
  BY DEF EndPcs, OrderOpenPcs
<1>2. CASE CreateSaveOrder(r)
  <2>1. /\ oreq[r].pc = "saveOrder" /\ UNCHANGED payments
        /\ End(r, "failed") \/ Goto(r, "saveItems")
    BY <1>2 DEF CreateSaveOrder, At
  <2> QED
    BY <1>1, <2>1, EndMoves, GotoMoves
<1>3. CASE CreateSaveItems(r)
  <2>1. /\ oreq[r].pc = "saveItems" /\ UNCHANGED payments
        /\ End(r, "failed") \/ Goto(r, "respond")
    BY <1>3 DEF CreateSaveItems, At
  <2> QED
    BY <1>1, <2>1, EndMoves, GotoMoves
<1>4. CASE UpdateSaveOrder(r)
  <2>1. /\ oreq[r].pc = "saveOrder" /\ UNCHANGED payments
        /\ End(r, "failed") \/ Goto(r, "deleteItems")
    BY <1>4 DEF UpdateSaveOrder, At
  <2> QED
    BY <1>1, <2>1, EndMoves, GotoMoves
<1>5. CASE UpdateDeleteItems(r)
  <2>1. oreq[r].pc = "deleteItems" /\ UNCHANGED payments /\ Goto(r, "createItems")
    BY <1>5 DEF UpdateDeleteItems, At
  <2> QED
    BY <1>1, <2>1, GotoMoves
<1>6. CASE UpdateCreateItems(r)
  <2>1. /\ oreq[r].pc = "createItems" /\ UNCHANGED payments
        /\ End(r, "failed") \/ Goto(r, "findItems")
    BY <1>6 DEF UpdateCreateItems, At
  <2> QED
    BY <1>1, <2>1, EndMoves, GotoMoves
<1>7. CASE UpdateSaveItems(r)
  <2>1. /\ oreq[r].pc = "updateItems" /\ oreq[r].cmd = "update"
        /\ UNCHANGED payments /\ Goto(r, "respond")
    BY <1>7 DEF UpdateSaveItems, At
  <2> QED
    BY <1>1, <2>1, GotoMoves
<1>8. CASE DeleteDeleteItems(r)
  <2>1. /\ oreq[r].pc = "deleteItems" /\ UNCHANGED payments
        /\ End(r, "failed") \/ Goto(r, "deleteOrder")
    BY <1>8 DEF DeleteDeleteItems, At
  <2> QED
    BY <1>1, <2>1, EndMoves, GotoMoves
<1>9. CASE DeleteDeleteOrder(r)
  <2>1. /\ oreq[r].pc = "deleteOrder" /\ UNCHANGED payments
        /\ End(r, "failed") \/ End(r, "done")
    BY <1>9 DEF DeleteDeleteOrder, At
  <2> QED
    BY <1>1, <2>1, EndMoves
<1> QED
  BY <1>2, <1>3, <1>4, <1>5, <1>6, <1>7, <1>8, <1>9 DEF OrderWrites

LEMMA OrderWritesAreSteps ==
    ASSUME NEW r \in OrderRequests, OrderWrites(r)
    PROVE  OrderStep(r) /\ UNCHANGED copies
BY DEF OrderWrites, OrderStep

LEMMA OrderWritesKeepInvariant ==
    ASSUME FollowersIInv, NEW r \in OrderRequests, OrderWrites(r),
           UNCHANGED <<preq, hreq, payconiqVars>>
    PROVE  FollowersIInv'
<1>1. IInv /\ ItemInv /\ AnswerInv /\ CopyInv /\ OrderStep(r) /\ UNCHANGED copies
  BY OrderWritesAreSteps DEF FollowersIInv
<1>2. IInv' /\ ItemInv' /\ AnswerInv'
  BY <1>1, OrderStepsKeepIInv, OrderStepKeepsItemInv, OrderStepKeepsAnswerInv
<1>3. CopyInv'
  BY <1>1, <1>2, OrderWriteMoves, MovesForward, PaymentsUnchangedPersist, OldCopiesKept
<1> QED
  BY <1>2, <1>3 DEF FollowersIInv

-----------------------------------------------------------------------------
(* What the payments and webhook handlers read in a copy.                    *)

LEMMA PaymentReadsKeepIInv ==
    ASSUME IInv, CopyInv, NEW p \in PaymentRequests, NEW f \in Followers, PaymentReads(p, f),
           UNCHANGED <<oreq, hreq>>
    PROVE  IInv'
<1>1. CASE View(f)!CreatePaymentFind(p)
  <2> DEFINE o == preq[p].order
             total == copies[f].orders[o].totalPrice
  <2>1. /\ PaymentAt(p, PaymentTypes, "find") /\ PaymentShapeOf(p)
        /\ preq[p].pc = "find" /\ preq[p].cmd \in PaymentTypes
        /\ UNCHANGED <<database, payconiqVars>>
    BY <1>1 DEF View!CreatePaymentFind, View!PaymentAt, PaymentAt, View!PaymentTypes,
       PaymentTypes, PaymentReads, View!payconiqVars, payconiqVars, IInv, PaymentShape
  <2>2. CASE View(f)!FoundUnfinished(o, preq[p].organisation)
    <3>1. preq' = [preq EXCEPT ![p] = [@ EXCEPT !.pc = FirstCall(preq[p].cmd), !.total = total]]
      BY <1>1, <2>2 DEF View!CreatePaymentFind, View!FirstCall, FirstCall
    <3>2. o \in OrderIds /\ copies[f].orders[o] \in OrderRow
      BY <2>1, <2>2, CopyTypes DEF PaymentShapeOf, View!FoundUnfinished, View!OrderFound
    <3>3. total \in 0 .. MaxInt
      BY <3>2 DEF OrderRow
    <3> QED
      BY <2>1, <3>1, <3>3, PaymentGoesOnKeepsIInv
  <2>3. CASE ~View(f)!FoundUnfinished(o, preq[p].organisation)
    <3>1. PaymentEnd(p, "rejected")
      BY <1>1, <2>3 DEF View!CreatePaymentFind, View!PaymentEnd, PaymentEnd
    <3> QED
      BY <2>1, <3>1, PaymentEndKeepsIInv DEF EndPcs
  <2> QED
    BY <2>2, <2>3
<1>2. CASE View(f)!PayconiqRespond(p)
  <2>1. /\ \E outcome \in EndPcs : PaymentEnd(p, outcome)
        /\ preq[p].pc # "idle" /\ UNCHANGED <<database, payconiqVars>>
    BY <1>2 DEF View!PayconiqRespond, View!PaymentAt, View!PaymentEnd, PaymentEnd, EndPcs,
       PaymentReads, View!payconiqVars, payconiqVars
  <2> QED
    BY <2>1, PaymentEndKeepsIInv
<1>3. CASE View(f)!CancelFind(p)
  <2>1. /\ preq[p].pc = "find" /\ preq[p].cmd = "CANCEL" /\ PaymentShapeOf(p)
        /\ UNCHANGED <<database, payconiqVars>>
    BY <1>3 DEF View!CancelFind, View!PaymentAt, PaymentReads, View!payconiqVars, payconiqVars,
       IInv, PaymentShape
  <2>2. CASE PaymentEnd(p, "rejected")
    BY <2>1, <2>2, PaymentEndKeepsIInv DEF EndPcs
  <2>3. CASE copies[f].payments[preq[p].payment] # Null /\ PaymentGoto(p, "callPayconiq")
    <3>1. preq[p].payment \in PaymentIds
      BY <2>1 DEF PaymentShapeOf
    <3>2. payments[preq[p].payment] # Null
      BY <2>3, <3>1 DEF CopyInv, CopyShapeOf, PaymentsCopied
    <3>3. PaymentsTypeOK' /\ PaymentShape'
      BY <2>1, <2>3, <3>2, CancelGotoKeepsShape DEF database, payconiqVars
    <3> QED
      BY <2>1, <3>3, PaymentReadKeepsIInv
  <2> QED
    BY <1>3, <2>2, <2>3 DEF View!CancelFind, View!PayconiqPaymentFound, View!PaymentGoto,
       PaymentGoto, View!PaymentEnd, PaymentEnd
<1> QED
  BY <1>1, <1>2, <1>3 DEF PaymentReads

\* A payment that a follower has is about the same order at the master.
LEMMA WebhookReadsKeepIInv ==
    ASSUME IInv, CopyInv, NEW d \in Deliveries, NEW f \in Followers, WebhookReads(d, f),
           UNCHANGED <<oreq, preq>>
    PROVE  IInv'
<1> DEFINE q == DeliveredPayment(d)
<1>1. /\ hreq[d].pc = "find" /\ UNCHANGED <<database, payconiqVars>>
      /\ View(f)!DeliveredPayment(d) = q
  BY DEF WebhookReads, View!WebhookFind, View!payconiqVars, payconiqVars,
     View!DeliveredPayment, DeliveredPayment, View!InternalPaymentIdFromReference,
     InternalPaymentIdFromReference
<1>2. q \in PaymentIds
  BY <1>1, DeliveredIsPayment DEF IInv, WebhookShape
<1> HIDE DEF q
<1>3. CASE copies[f].payments[q] = Null
  <2>1. WebhookGoto(d, "failed")
    BY <1>1, <1>3 DEF WebhookReads, View!WebhookFind, View!WebhookGoto, WebhookGoto
  <2> QED
    BY <1>1, <2>1, WebhookEndKeepsIInv
<1>4. CASE copies[f].payments[q] # Null
  <2>1. payments[q] # Null /\ payments[q].order = copies[f].payments[q].order
    BY <1>2, <1>4 DEF CopyInv, CopyShapeOf, PaymentsCopied
  <2>2. hreq' = [hreq EXCEPT ![d] = [@ EXCEPT !.pc = "updatePayment",
                                              !.order = payments[q].order]]
    BY <1>1, <1>4, <2>1 DEF WebhookReads, View!WebhookFind
  <2> QED
    BY <1>1, <2>1, <2>2, DeliveryGoesOnKeepsIInv DEF q
<1> QED
  BY <1>3, <1>4

\* A step of neither request leaves the copies of items as right as they were.
LEMMA NoRequestKeepsCopies ==
    ASSUME FollowersIInv, IInv', AnswerInv', PaymentsPersist, UNCHANGED oreq, UNCHANGED copies
    PROVE  CopyInv'
<1>1. Forward /\ SavesTogether
  BY DEF Forward, SavesTogether
<1> QED
  BY <1>1, OldCopiesKept DEF FollowersIInv

LEMMA ReadsOfOthersKeepInvariant ==
    ASSUME FollowersIInv, IInv', UNCHANGED <<database, copies>>, UNCHANGED oreq
    PROVE  FollowersIInv'
<1>1. IInv /\ ItemInv /\ AnswerInv /\ UNCHANGED <<orders, items, payments>> /\ UNCHANGED copies
  BY DEF FollowersIInv, database
<1>2. ItemInv' /\ AnswerInv'
  BY <1>1, RequestsStandStill, NothingDisturbed, NoRequestKeepsAnswerInv
<1>3. CopyInv'
  BY <1>1, <1>2, PaymentsUnchangedPersist, NoRequestKeepsCopies
<1> QED
  BY <1>2, <1>3 DEF FollowersIInv

-----------------------------------------------------------------------------
(* What they write at the master.                                            *)

LEMMA PaymentWritesKeepPayments ==
    ASSUME IInv, NEW p \in PaymentRequests, PaymentWrites(p)
    PROVE  PaymentsPersist
<1>1. CASE CreatePaymentSave(p)
  <2>1. payments[p] = Null /\ payments \in [PaymentIds -> PaymentRow \cup {Null}]
    BY <1>1 DEF CreatePaymentSave, PaymentAt, IInv, PaymentShape, PaymentShapeOf, TypeOK,
       DatabaseTypeOK
  <2>2. \A q \in PaymentIds : q # p => payments'[q] = payments[q]
    BY <1>1, <2>1 DEF CreatePaymentSave, InsertPayment
  <2> QED
    BY <2>1, <2>2 DEF PaymentsPersist
<1>2. CASE CancelUpdatePayment(p)
  <2>1. preq[p].payment \in PaymentIds /\ payments[preq[p].payment] # Null
    BY <1>2 DEF CancelUpdatePayment, PaymentAt, IInv, PaymentShape, PaymentShapeOf
  <2> QED
    BY <1>2, <2>1, UpdatePaymentKeeps DEF CancelUpdatePayment, PaymentStatuses, PayconiqStatuses
<1>3. CASE \/ CreatePaymentCallPayconiq(p) \/ CreatePaymentFinishOrder(p)
           \/ CancelCallPayconiq(p)
  BY <1>3, PaymentsUnchangedPersist DEF CreatePaymentCallPayconiq, CreatePaymentFinishOrder,
     CancelCallPayconiq, database
<1> QED
  BY <1>1, <1>2, <1>3 DEF PaymentWrites

LEMMA WebhookWritesKeepPayments ==
    ASSUME IInv, NEW d \in Deliveries, WebhookWrites(d)
    PROVE  PaymentsPersist
<1>1. CASE WebhookUpdatePayment(d)
  <2>1. /\ DeliveredPayment(d) \in PaymentIds /\ payments[DeliveredPayment(d)] # Null
        /\ hreq[d].callback \in Callback
    BY <1>1 DEF WebhookUpdatePayment, IInv, WebhookShape, PaymentsOf
  <2>2. DeliveredStatus(d) \in PaymentStatuses /\ hreq[d].callback.status \in PayconiqStatuses
    BY <2>1, PaymentStatusFromType DEF DeliveredStatus, Callback
  <2> QED
    BY <1>1, <2>1, <2>2, UpdatePaymentKeeps DEF WebhookUpdatePayment
<1>2. CASE WebhookFinishOrder(d)
  BY <1>2, PaymentsUnchangedPersist DEF WebhookFinishOrder
<1> QED
  BY <1>1, <1>2 DEF WebhookWrites

LEMMA PaymentCallsKeepInvariant ==
    ASSUME FollowersIInv, NEW p \in PaymentRequests, PaymentCalls(p)
    PROVE  FollowersIInv'
<1>1. IInv /\ ItemInv /\ AnswerInv /\ CopyInv /\ UNCHANGED oreq /\ UNCHANGED <<oreq, hreq>>
  BY DEF FollowersIInv, PaymentCalls
<1>2. ASSUME NEW f \in Followers, PaymentReads(p, f)
      PROVE  FollowersIInv'
  <2>1. IInv' /\ UNCHANGED <<database, copies>>
    BY <1>1, <1>2, PaymentReadsKeepIInv DEF PaymentReads
  <2> QED
    BY <1>1, <2>1, ReadsOfOthersKeepInvariant
<1>3. CASE PaymentWrites(p)
  <2>1. PaymentStep(p) /\ UNCHANGED copies
    BY <1>3 DEF PaymentWrites, PaymentStep
  <2>2. IInv' /\ ItemInv' /\ AnswerInv'
    BY <1>1, <2>1, PaymentStepsKeepIInv, PaymentStepKeepsItemInv, PaymentStepKeepsAnswerInv
  <2>3. CopyInv'
    BY <1>1, <1>3, <2>1, <2>2, PaymentWritesKeepPayments, NoRequestKeepsCopies
  <2> QED
    BY <2>2, <2>3 DEF FollowersIInv
<1> QED
  BY <1>2, <1>3 DEF PaymentCalls

LEMMA WebhookCallsKeepInvariant ==
    ASSUME FollowersIInv, NEW d \in Deliveries, WebhookCalls(d)
    PROVE  FollowersIInv'
<1>1. IInv /\ ItemInv /\ AnswerInv /\ CopyInv /\ UNCHANGED oreq /\ UNCHANGED <<oreq, preq>>
  BY DEF FollowersIInv, WebhookCalls
<1>2. ASSUME NEW f \in Followers, WebhookReads(d, f)
      PROVE  FollowersIInv'
  <2>1. IInv' /\ UNCHANGED <<database, copies>>
    BY <1>1, <1>2, WebhookReadsKeepIInv DEF WebhookReads
  <2> QED
    BY <1>1, <2>1, ReadsOfOthersKeepInvariant
<1>3. CASE WebhookWrites(d)
  <2>1. WebhookStep(d) /\ UNCHANGED copies
    BY <1>3 DEF WebhookWrites, WebhookStep
  <2>2. IInv' /\ ItemInv' /\ AnswerInv'
    BY <1>1, <2>1, WebhookStepsKeepIInv, WebhookStepKeepsItemInv, WebhookStepKeepsAnswerInv
  <2>3. CopyInv'
    BY <1>1, <1>3, <2>1, <2>2, WebhookWritesKeepPayments, NoRequestKeepsCopies
  <2> QED
    BY <2>2, <2>3 DEF FollowersIInv
<1> QED
  BY <1>2, <1>3 DEF WebhookCalls

-----------------------------------------------------------------------------
(* What needs no follower: requests that arrive, handlers that fail,         *)
(* Payconiq.                                                                 *)

LEMMA OneArrives ==
    ASSUME OrdersReceive
    PROVE  \E r \in OrderRequests : \E request :
              /\ oreq[r].pc = "idle" /\ request.pc \in {"checkName", "find"}
              /\ oreq' = [oreq EXCEPT ![r] = request]
<1>1. PICK r \in OrderRequests, org \in Organisations :
         \/ \E name \in ClientNames \cup {Null}, cart \in Carts :
               ReceiveCreate(r, org, name, cart)
         \/ \E o \in Known, name \in ClientNames \cup {Null}, cart \in Carts :
               \E lines \in LinesFor(o, cart) : ReceiveUpdate(r, o, org, name, lines)
         \/ \E o \in Known : ReceiveDelete(r, o, org)
  BY DEF OrdersReceive
<1>2. ASSUME NEW request, Receive(r, request), request.pc \in {"checkName", "find"}
      PROVE  \E q \in OrderRequests : \E asked :
                /\ oreq[q].pc = "idle" /\ asked.pc \in {"checkName", "find"}
                /\ oreq' = [oreq EXCEPT ![q] = asked]
  BY <1>2 DEF Receive
<1>3. ASSUME NEW name, NEW cart, ReceiveCreate(r, org, name, cart)
      PROVE  \E request : Receive(r, request) /\ request.pc \in {"checkName", "find"}
  <2> DEFINE lines == {[product |-> c.product, amount |-> c.amount, item |-> Null] : c \in cart}
             request == [NoOrderRequest EXCEPT
                 !.cmd = "create", !.pc = "checkName", !.organisation = org,
                 !.order = r, !.clientName = name, !.lines = lines]
  <2>1. Receive(r, request)
    BY <1>3 DEF ReceiveCreate
  <2> HIDE DEF lines
  <2>2. request.pc = "checkName"
    BY DEF NoOrderRequest
  <2> QED
    BY <2>1, <2>2
<1>4. ASSUME NEW o, NEW name, NEW lines, ReceiveUpdate(r, o, org, name, lines)
      PROVE  \E request : Receive(r, request) /\ request.pc \in {"checkName", "find"}
  <2> DEFINE request == [NoOrderRequest EXCEPT
                 !.cmd = "update", !.pc = "find", !.organisation = org,
                 !.order = o, !.clientName = name, !.lines = lines]
  <2>1. Receive(r, request)
    BY <1>4 DEF ReceiveUpdate
  <2>2. request.pc = "find"
    BY DEF NoOrderRequest
  <2> QED
    BY <2>1, <2>2
<1>5. ASSUME NEW o, ReceiveDelete(r, o, org)
      PROVE  \E request : Receive(r, request) /\ request.pc \in {"checkName", "find"}
  <2> DEFINE request == [NoOrderRequest EXCEPT
                 !.cmd = "delete", !.pc = "find", !.organisation = org, !.order = o]
  <2>1. Receive(r, request)
    BY <1>5 DEF ReceiveDelete
  <2>2. request.pc = "find"
    BY DEF NoOrderRequest
  <2> QED
    BY <2>1, <2>2
<1>6. \E request : Receive(r, request) /\ request.pc \in {"checkName", "find"}
  BY <1>1, <1>3, <1>4, <1>5
<1> QED
  BY <1>2, <1>6

LEMMA OthersMoveForward ==
    ASSUME IInv, Receives \/ Aborts \/ PayconiqMoves
    PROVE  Forward /\ SavesTogether /\ UNCHANGED payments
<1>1. ASSUME UNCHANGED oreq
      PROVE  Forward /\ SavesTogether
  BY <1>1 DEF Forward, SavesTogether
<1>2. ASSUME OrdersReceive
      PROVE  Forward /\ SavesTogether
  <2>1. PICK r \in OrderRequests : \E request :
           /\ oreq[r].pc = "idle" /\ request.pc \in {"checkName", "find"}
           /\ oreq' = [oreq EXCEPT ![r] = request]
    BY <1>2, OneArrives
  <2>2. PICK request :
           /\ oreq[r].pc = "idle" /\ request.pc \in {"checkName", "find"}
           /\ oreq' = [oreq EXCEPT ![r] = request]
    BY <2>1
  <2>3. oreq'[r] = request /\ Alone(r)
    BY <2>2 DEF IInv, TypeOK, OrdersTypeOK, Alone
  <2>4. Forward
    BY <2>2, <2>3 DEF Forward, Alone, At, NoItemYet, NoOrderYet
  <2>5. SavesTogether
    BY <2>2, <2>3 DEF SavesTogether, Alone
  <2> QED
    BY <2>4, <2>5
<1>3. ASSUME NEW r \in OrderRequests, OrderAbort(r)
      PROVE  Forward /\ SavesTogether
  BY <1>3, EndMoves, MovesForward DEF OrderAbort, EndPcs
<1>4. CASE Receives
  <2>1. UNCHANGED payments
    BY <1>4, ReceivesWriteNothing
  <2> QED
    BY <1>1, <1>2, <1>4, <2>1 DEF Receives
<1>5. CASE Aborts
  <2>1. UNCHANGED payments
    BY <1>5 DEF Aborts, OrderAbort, PaymentAbort, WebhookAbort, database
  <2> QED
    BY <1>1, <1>3, <1>5, <2>1 DEF Aborts
<1>6. CASE PayconiqMoves
  BY <1>1, <1>6 DEF PayconiqMoves, database
<1> QED
  BY <1>4, <1>5, <1>6

LEMMA OthersKeepInvariant ==
    ASSUME FollowersIInv, Receives \/ Aborts \/ PayconiqMoves, UNCHANGED copies
    PROVE  FollowersIInv'
<1>1. IInv /\ ItemInv /\ AnswerInv /\ CopyInv /\ [Next]_vars
  BY DEF FollowersIInv, Next
<1>2. IInv' /\ ItemInv' /\ AnswerInv'
  BY <1>1, NextKeepsIInv, NextKeepsItemInv, NextKeepsAnswerInv
<1>3. Forward /\ SavesTogether /\ PaymentsPersist
  BY <1>1, OthersMoveForward, PaymentsUnchangedPersist
<1>4. CopyInv'
  BY <1>1, <1>2, <1>3, OldCopiesKept
<1> QED
  BY <1>2, <1>4 DEF FollowersIInv

LEMMA StandingStillKeepsInvariant ==
    ASSUME FollowersIInv, UNCHANGED vars
    PROVE  IInv' /\ ItemInv' /\ AnswerInv' /\ Forward /\ SavesTogether /\ PaymentsPersist
           /\ UNCHANGED <<orders, items, payments>> /\ UNCHANGED oreq
<1>1. IInv /\ ItemInv /\ AnswerInv /\ [Next]_vars
  BY DEF FollowersIInv
<1>2. UNCHANGED <<orders, items, payments>> /\ UNCHANGED oreq
  BY DEF vars
<1>3. Forward /\ SavesTogether /\ PaymentsPersist
  BY <1>2, PaymentsUnchangedPersist DEF Forward, SavesTogether
<1> QED
  BY <1>1, <1>2, <1>3, NextKeepsIInv, NextKeepsItemInv, NextKeepsAnswerInv

\* The tables that a follower takes over are right, those of the others stay.
LEMMA ReplicateKeepsInvariant ==
    ASSUME FollowersIInv, NEW f \in Followers, Replicate(f)
    PROVE  FollowersIInv'
<1>1. /\ copies \in [Followers -> Tables]
      /\ copies' = [copies EXCEPT ![f] = Master] /\ UNCHANGED vars
      /\ \A g \in Followers : CopyShapeOf(g)
      /\ IInv /\ ItemInv /\ AnswerInv
  BY DEF FollowersIInv, CopyInv, Replicate
<1>2. /\ IInv' /\ ItemInv' /\ AnswerInv' /\ Forward /\ SavesTogether /\ PaymentsPersist
      /\ UNCHANGED <<orders, items, payments>> /\ UNCHANGED oreq
  BY <1>1, StandingStillKeepsInvariant
<1>3. /\ copies'[f].items = items /\ copies'[f].payments = payments
      /\ Master \in Tables
  BY <1>1 DEF Master, Tables, IInv, TypeOK, DatabaseTypeOK
<1>4. PaymentsCopied(f)'
  BY <1>2, <1>3 DEF PaymentsCopied
<1>5. ItemsCopied(f)'
  <2>1. ItemInv /\ oreq' = oreq
    BY <1>1, <1>2
  <2> QED
    BY <1>3, <2>1, OwnerIsPastChecks DEF ItemsCopied
<1>6. \A r \in OrderRequests : CreationCopied(f, r)'
  <2> SUFFICES ASSUME NEW r \in OrderRequests
               PROVE  CreationCopied(f, r)'
    OBVIOUS
  <2>1. CreationShapeOf(r) /\ oreq' = oreq /\ items' = items
    BY <1>1, <1>2 DEF AnswerInv, CreationShape
  <2> QED
    BY <1>3, <2>1 DEF CreationCopied, CreationShapeOf
<1>7. CopyShapeOf(f)'
  BY <1>4, <1>5, <1>6 DEF CopyShapeOf
<1>8. \A g \in Followers : g # f => copies'[g] = copies[g]
  BY <1>1
<1>9. \A g \in Followers : g # f => CopyShapeOf(g)'
  BY <1>1, <1>2, <1>8, OldCopyKept
<1>10. copies' \in [Followers -> Tables]
  BY <1>1, <1>3
<1>11. CopyInv'
  BY <1>7, <1>9, <1>10 DEF CopyInv
<1> QED
  BY <1>2, <1>11 DEF FollowersIInv

-----------------------------------------------------------------------------
(* The theorems.                                                             *)

LEMMA InitFollowersIInv == FollowersInit => FollowersIInv
<1> SUFFICES ASSUME FollowersInit
             PROVE  FollowersIInv
  OBVIOUS
<1>1. IInv /\ ItemInv /\ AnswerInv
  BY InitIInv, InitItemInv, InitAnswerInv DEF FollowersInit
<1>2. \A f \in Followers : copies[f] = Master
  BY DEF FollowersInit
<1>3. \A f \in Followers : CopyShapeOf(f) /\ copies[f] \in Tables
  BY <1>1, <1>2, MasterIsCopy
<1>4. CopyInv
  BY <1>2, <1>3 DEF CopyInv, FollowersInit
<1> QED
  BY <1>1, <1>4 DEF FollowersIInv

LEMMA OrderCallsKeepInvariant ==
    ASSUME FollowersIInv, NEW r \in OrderRequests, OrderCalls(r)
    PROVE  FollowersIInv'
BY OrderReadsKeepInvariant, OrderWritesKeepInvariant DEF OrderCalls

LEMMA FollowersNextKeepsInvariant ==
    FollowersIInv /\ [FollowersNext]_replicated => FollowersIInv'
<1> SUFFICES ASSUME FollowersIInv, [FollowersNext]_replicated
             PROVE  FollowersIInv'
  OBVIOUS
<1>1. CASE (Receives \/ PayconiqMoves \/ Aborts) /\ UNCHANGED copies
  BY <1>1, OthersKeepInvariant
<1>2. CASE UNCHANGED replicated
  <2>1. UNCHANGED vars /\ UNCHANGED copies
    BY <1>2 DEF replicated
  <2>2. /\ IInv /\ AnswerInv /\ CopyInv /\ IInv' /\ ItemInv' /\ AnswerInv'
        /\ Forward /\ SavesTogether /\ PaymentsPersist
    BY <2>1, StandingStillKeepsInvariant DEF FollowersIInv
  <2>3. CopyInv'
    BY <2>1, <2>2, OldCopiesKept
  <2> QED
    BY <2>2, <2>3 DEF FollowersIInv
<1> QED
  BY <1>1, <1>2, OrderCallsKeepInvariant, PaymentCallsKeepInvariant, WebhookCallsKeepInvariant,
     ReplicateKeepsInvariant DEF FollowersNext

\* However far the followers lag behind, what the handlers rely on holds at
\* the master, and what they may rely on in a copy holds there.
THEOREM FollowersInvariant == FollowersSpec => []FollowersIInv
BY InitFollowersIInv, FollowersNextKeepsInvariant, PTL DEF FollowersSpec

\* The types are right at the master and at every follower.
THEOREM FollowersTypeCorrect == FollowersSpec => []FollowersTypeOK
<1>1. FollowersIInv => FollowersTypeOK
  BY CopyTypes DEF FollowersIInv, IInv, FollowersTypeOK
<1> QED
  BY <1>1, FollowersInvariant, PTL

\* An order is finished by a payment only, though the handlers that pay and
\* cancel read orders and payments in old copies.
THEOREM FollowersFinishedIsPaid == FollowersSpec => []FinishedIsPaid
<1>1. FollowersIInv => FinishedIsPaid
  BY DEF FollowersIInv, IInv
<1> QED
  BY <1>1, FollowersInvariant, PTL

-----------------------------------------------------------------------------
(* The refinement of Ledger: what is read in copies is what no write to      *)
(* orders or payments depends on.                                            *)

LEMMA ReadIsLedgerStutter ==
    ASSUME UNCHANGED database, UNCHANGED payconiqVars
    PROVE  LedgerStep
BY NoWriteIsStutter DEF database, payconiqVars

LEMMA FollowersStepIsLedgerStep ==
    IInv /\ [FollowersNext]_replicated => LedgerStep
<1> SUFFICES ASSUME IInv, [FollowersNext]_replicated
             PROVE  LedgerStep
  OBVIOUS
<1>1. ASSUME NEW r \in OrderRequests, OrderCalls(r)
      PROVE  LedgerStep
  <2>1. CASE \E f \in Followers : OrderReads(r, f)
    BY <1>1, <2>1, ReadIsLedgerStutter DEF OrderCalls, OrderReads
  <2>2. CASE OrderWrites(r)
    BY <1>1, <2>2, OrderWritesAreSteps, OrderStepIsLedgerStep DEF OrderCalls
  <2> QED
    BY <1>1, <2>1, <2>2 DEF OrderCalls
<1>2. ASSUME NEW p \in PaymentRequests, PaymentCalls(p)
      PROVE  LedgerStep
  <2>1. ASSUME NEW f \in Followers, PaymentReads(p, f)
        PROVE  LedgerStep
    BY <2>1, ReadIsLedgerStutter DEF PaymentReads, View!CreatePaymentFind, View!PayconiqRespond,
       View!CancelFind, View!payconiqVars, payconiqVars
  <2>2. CASE PaymentWrites(p)
    BY <2>2, PaymentStepIsLedgerStep DEF PaymentWrites, PaymentStep
  <2> QED
    BY <1>2, <2>1, <2>2 DEF PaymentCalls
<1>3. ASSUME NEW d \in Deliveries, WebhookCalls(d)
      PROVE  LedgerStep
  <2>1. ASSUME NEW f \in Followers, WebhookReads(d, f)
        PROVE  LedgerStep
    BY <2>1, ReadIsLedgerStutter DEF WebhookReads, View!WebhookFind, View!payconiqVars, payconiqVars
  <2>2. CASE WebhookWrites(d)
    BY <2>2, WebhookStepIsLedgerStep DEF WebhookWrites, WebhookStep
  <2> QED
    BY <1>3, <2>1, <2>2 DEF WebhookCalls
<1>4. CASE Receives \/ PayconiqMoves \/ Aborts
  BY <1>4, NextIsLedgerStep DEF Next
<1>5. ASSUME UNCHANGED vars
      PROVE  LedgerStep
  BY <1>5, NoWriteIsStutter DEF vars
<1> QED
  BY <1>1, <1>2, <1>3, <1>4, <1>5 DEF FollowersNext, Replicate, replicated

\* The API implements the ledger though its handlers read in old copies: the
\* checks that need the latest rows are those of the database itself.
THEOREM FollowersImplementLedger == FollowersSpec => ImplementsLedger
<1>1. FollowersIInv => IInv
  BY DEF FollowersIInv
<1>2. IInv /\ [FollowersNext]_replicated => [PromisedLedger!Next]_(PromisedLedger!ledger)
  BY FollowersStepIsLedgerStep DEF LedgerStep, PromisedLedger!ledger
<1>3. FollowersInit => PromisedLedger!Init
  BY InitIsLedgerInit DEF FollowersInit
<1> QED
  BY <1>1, <1>2, <1>3, FollowersInvariant, PTL
     DEF FollowersSpec, ImplementsLedger, PromisedLedger!Spec

-----------------------------------------------------------------------------
(* The answer to a creation, read at a follower.                             *)

\* The copied items of an order that is about to be answered are those of its
\* creation, if any has been copied.
LEMMA CopiedItemsOfACreation ==
    ASSUME FollowersIInv, NEW r \in OrderRequests, At(r, "create", "respond"),
           NEW f \in Followers
    PROVE  View(f)!ItemsOf(r) \in {{}, ItemsOf(r)}
           /\ \A i \in View(f)!ItemsOf(r) : copies[f].items[i] = items[i]
<1>1. /\ IInv /\ ItemInv /\ AnswerInv /\ ItemsCopied(f) /\ CreationCopied(f, r)
      /\ oreq[r].cmd = "create" /\ oreq[r].pc = "respond" /\ r \in OrderIds
  BY DEF FollowersIInv, CopyInv, CopyShapeOf, At, OrderIds
<1>2. ASSUME NEW i \in ItemIds, copies[f].items[i] # Null, copies[f].items[i].order = r
      PROVE  i[1] = r
  <2>1. oreq[i[1]].pc \notin NoItemYet /\ oreq[i[1]].order = r /\ i[1] \in OrderRequests
    BY <1>1, <1>2, OwnerIsRequest, NullAssumption DEF ItemsCopied
  <2>2. oreq[i[1]].pc # "idle" /\ HomeShapeOf(i[1])
    BY <1>1, <2>1 DEF NoItemYet, ItemInv, HomeShape
  <2>3. oreq[i[1]].cmd \in {"create", "update", "delete"}
    BY <1>1, <2>1, <2>2 DEF IInv, TypeOK, OrdersTypeOK, OrderShape, OrderRequest
  <2> QED
    BY <1>1, <2>1, <2>2, <2>3 DEF HomeShapeOf, At
<1>3. View(f)!ItemsOf(r) = {i \in ItemIds : copies[f].items[i] # Null /\ copies[f].items[i].order = r}
  BY DEF View!ItemsOf, View!ItemIds, ItemIds
<1>4. ASSUME NEW i \in ItemsOf(r)
      PROVE  i[1] = r
  BY <1>1, <1>4, ItemsOfACreation DEF ItemsOf
<1>5. CASE \A p \in Products : copies[f].items[<<r, p>>] = Null
  <2>1. ASSUME NEW i \in View(f)!ItemsOf(r)
        PROVE  FALSE
    BY <1>2, <1>3, <1>5, <2>1, OwnerIsRequest
  <2> QED
    BY <2>1
<1>6. CASE \A p \in Products : copies[f].items[<<r, p>>] = items[<<r, p>>]
  <2>1. ASSUME NEW i \in ItemIds, i[1] = r
        PROVE  copies[f].items[i] = items[i]
    BY <1>6, <2>1, OwnerIsRequest
  <2>2. \A i \in ItemIds : i \in View(f)!ItemsOf(r) <=> i \in ItemsOf(r)
    BY <1>2, <1>3, <1>4, <2>1 DEF ItemsOf
  <2>3. View(f)!ItemsOf(r) = ItemsOf(r)
    BY <1>3, <2>2 DEF ItemsOf
  <2> QED
    BY <1>4, <2>1, <2>3 DEF ItemsOf
<1> QED
  BY <1>1, <1>5, <1>6 DEF CreationCopied

\* It is answered with the order as it was sent if the follower has the order
\* and its items, and with nothing otherwise.
LEMMA CopiedAnswer ==
    ASSUME FollowersIInv, NEW r \in OrderRequests, At(r, "create", "respond"),
           NEW f \in Followers
    PROVE  View(f)!Answer(r) \in {Null, SentLines(r)}
<1> DEFINE copied == View(f)!ItemsOf(r)
           shown == {[product |-> copies[f].items[i].product, amount |-> copies[f].items[i].amount] :
                       i \in {j \in copied : copies[f].items[j].product # Null}}
           answered == {[product |-> items[i].product, amount |-> items[i].amount] :
                          i \in {j \in ItemsOf(r) : items[j].product # Null}}
<1>1. /\ IInv /\ ItemInv /\ AnswerInv /\ oreq[r].order = r
      /\ oreq[r].cmd = "create" /\ oreq[r].pc = "respond"
  BY DEF FollowersIInv, At, ItemInv, HomeShape, HomeShapeOf
<1>2. View(f)!Answer(r) = IF View(f)!OrderFound(r, oreq[r].organisation) /\ shown # {}
                          THEN shown ELSE Null
  BY <1>1 DEF View!Answer, View!GetOrder
<1>3. Answer(r) = IF OrderFound(r, oreq[r].organisation) /\ answered # {} THEN answered ELSE Null
  BY <1>1 DEF Answer, GetOrder
<1>4. Answer(r) = SentLines(r)
  BY <1>1, AnswerIsWhatWasSent
<1>5. OrderFound(r, oreq[r].organisation)
  BY <1>1 DEF AnswerInv, CreationShape, CreationShapeOf, OrderFound
<1>6. /\ copied \in {{}, ItemsOf(r)}
      /\ \A i \in copied : copies[f].items[i] = items[i]
  BY CopiedItemsOfACreation
<1> HIDE DEF copied
<1>7. CASE copied = {}
  <2>1. shown = {}
    BY <1>7
  <2> QED
    BY <1>2, <2>1
<1>8. CASE copied = ItemsOf(r)
  <2>1. shown = answered
    BY <1>6, <1>8
  <2> HIDE DEF shown, answered
  <2> QED
    BY <1>2, <1>3, <1>4, <1>5, <2>1
<1> QED
  BY <1>6, <1>7, <1>8

\* However far the followers lag behind, a creation is answered with all that
\* was sent or with nothing, never with a part of its order.
THEOREM CreateAnswersAllOrNothingAlways == FollowersSpec => []CreateAnswersAllOrNothing
<1>1. FollowersIInv => CreateAnswersAllOrNothing
  BY CopiedAnswer DEF CreateAnswersAllOrNothing
<1> QED
  BY <1>1, FollowersInvariant, PTL

=============================================================================
