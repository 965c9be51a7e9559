-------------------------------- MODULE TPCC --------------------------------
(***************************************************************************)
(* The TPC-C benchmark: the loader that fills the servers before they      *)
(* start (execution/tpcc/load_tables.cpp), the client's workload generator *)
(* (workload/tpcc.cpp) and the five stored procedures                      *)
(* (execution/tpcc.cpp and execution/tpcc/) over TxnTable.                 *)
(*                                                                         *)
(* A generator fixes a transaction's arguments and, by running the         *)
(* procedure against the key-generating adapter, its keys; the servers     *)
(* execute the transactions later, one at a time on the keys they share    *)
(* (the lock managers' part) and in an order the generator does not        *)
(* choose.  Kept of each table are the columns the procedures compute      *)
(* with; texts, dates and taxes are loaded and copied, never computed.     *)
(***************************************************************************)
EXTENDS Integers, Sequences, FiniteSets, FiniteSetsExt

CONSTANTS
    kMaxItems, kDistPerWare, kCustPerDist, kOrdPerDist, kLinePerOrder,
    kLastDelivered,    \* the last loaded order that is delivered (2100)
    kStatusWindow,     \* how far back OrderStatus looks (5)
    kStockWindow,      \* how far back StockLevel looks (20)
    kDataGenThreads,
    InitialStock,      \* quantities the loader draws from (10..100)
    Quantities,        \* quantities an order line may ask for (1..10)
    Amounts,           \* amounts a payment may have (100..500000)
    Garbage,           \* what may be behind an empty string in memory
    Scenarios          \* the deployments and workloads considered

VARIABLES
    scenario,   \* never changes
    ids,        \* [generator -> [warehouse -> [district -> TPCCIds]]]
    max_o_id,   \* [generator -> Int]
    made,       \* [procedure -> number of transactions generated]
    pending,    \* generated, not executed
    store,      \* the servers' storages: [storage key -> value]
    done        \* executed, with their status

tpccVars == <<scenario, ids, max_o_id, made, pending, store, done>>

(* The schemas of table.h, with the columns that are kept.                 *)
TpccSchema == [
    WAREHOUSE  |-> [grouped |-> FALSE, columns |-> {"TAX", "YTD"}],
    DISTRICT   |-> [grouped |-> FALSE, columns |-> {"YTD", "NEXT_O_ID"}],
    CUSTOMER   |-> [grouped |-> FALSE,
                    columns |-> {"DISCOUNT", "BALANCE", "YTD_PAYMENT", "PAYMENT_CNT", "DELIVERY_CNT"}],
    HISTORY    |-> [grouped |-> TRUE, columns |-> {"AMOUNT"}],
    NEW_ORDER  |-> [grouped |-> TRUE, columns |-> {"DUMMY"}],
    ORDER      |-> [grouped |-> TRUE, columns |-> {"C_ID", "CARRIER_ID", "OL_CNT"}],
    ORDER_LINE |-> [grouped |-> TRUE, columns |-> {"I_ID", "SUPPLY_W_ID", "DELIVERY_D", "QUANTITY", "AMOUNT"}],
    ITEM       |-> [grouped |-> TRUE, columns |-> {"PRICE"}],
    STOCK      |-> [grouped |-> TRUE, columns |-> {"QUANTITY"}]]

T == INSTANCE TxnTable WITH Schema <- TpccSchema

(* A key's partition (TPCCSharder) and its home (TPCCMetadataInitializer): *)
(* both look at the first column of the primary key, the warehouse.        *)
ComputePartition(key) == (key[2][1] - 1) % scenario.partitions

ComputeHome(key) == ((key[2][1] - 1) \div scenario.partitions) % scenario.regions

-----------------------------------------------------------------------------
(***************************************************************************)
(* The stored procedures: what they read, and what they write given what   *)
(* the reads returned.  A read that returned nothing leaves the default.   *)
(***************************************************************************)
Value(row, column) == IF row = T!Empty THEN 0 ELSE row[column]

Lines(Op(_)) == [i \in 1..kLinePerOrder |-> Op(i)]

Both(First(_), Second(_)) ==
    [i \in 1..(2 * kLinePerOrder) |-> IF i % 2 = 1 THEN First((i + 1) \div 2) ELSE Second(i \div 2)]

NewOrderRead(t) ==
    LET Item(i) == T!Select("ITEM", <<t.i_w, t.ol[i].item>>, {"PRICE"})
        Stock(i) == T!Select("STOCK", <<t.ol[i].supply_w, t.ol[i].item>>, {"QUANTITY"})
    IN <<T!Select("WAREHOUSE", <<t.w>>, {"TAX"}),
         T!Select("CUSTOMER", <<t.w, t.d, t.c>>, {"DISCOUNT"}),
         T!Select("DISTRICT", <<t.w, t.d>>, {"NEXT_O_ID"})>> \o Both(Item, Stock)

StockAfter(stock, quantity) == IF stock > quantity THEN stock - quantity ELSE stock - (quantity - 91)

NewOrderWrite(t, res) ==
    LET Price(i) == Value(res[2 + 2 * i], "PRICE")
        Quantity(i) == Value(res[3 + 2 * i], "QUANTITY")
        Stock(i) == T!Update("STOCK", <<t.ol[i].supply_w, t.ol[i].item>>,
                             [QUANTITY |-> StockAfter(Quantity(i), t.ol[i].quantity)])
        Line(i) == T!Insert("ORDER_LINE", <<t.w, t.d, t.o, t.ol[i].id>>,
                            [I_ID |-> t.ol[i].item, SUPPLY_W_ID |-> t.ol[i].supply_w, DELIVERY_D |-> 0,
                             QUANTITY |-> t.ol[i].quantity, AMOUNT |-> t.ol[i].quantity * Price(i)])
    IN <<T!Update("DISTRICT", <<t.w, t.d>>, [NEXT_O_ID |-> Value(res[3], "NEXT_O_ID") + 1]),
         T!Insert("ORDER", <<t.w, t.d, t.o>>, [C_ID |-> t.c, CARRIER_ID |-> 0, OL_CNT |-> kLinePerOrder]),
         T!Insert("NEW_ORDER", <<t.w, t.d, t.o>>, [DUMMY |-> 0])>> \o Both(Stock, Line)

PaymentRead(t) ==
    <<T!Select("WAREHOUSE", <<t.w>>, {"YTD"}),
      T!Select("DISTRICT", <<t.w, t.d>>, {"YTD"}),
      T!Select("CUSTOMER", <<t.c_w, t.c_d, t.c>>, {"DISCOUNT", "BALANCE", "YTD_PAYMENT", "PAYMENT_CNT"})>>

\* Mutant: the payment is not added to the district.
DistrictAfterKeeps(district, amount) == [YTD |-> Value(district, "YTD")]

(* PaymentTxn::Compute.                                                    *)
DistrictAfter(district, amount) == [YTD |-> Value(district, "YTD") + amount]

CustomerAfter(customer, amount) ==
    [BALANCE |-> Value(customer, "BALANCE") - amount,
     YTD_PAYMENT |-> Value(customer, "YTD_PAYMENT") + amount,
     PAYMENT_CNT |-> Value(customer, "PAYMENT_CNT") + 1]

PaymentWrite(t, res) ==
    <<T!Update("WAREHOUSE", <<t.w>>, [YTD |-> Value(res[1], "YTD") + t.amount]),
      T!Update("DISTRICT", <<t.w, t.d>>, DistrictAfter(res[2], t.amount)),
      T!Update("CUSTOMER", <<t.c_w, t.c_d, t.c>>, CustomerAfter(res[3], t.amount)),
      T!Unchecked(T!Insert("HISTORY", <<t.w, t.d, t.c, t.h>>, [AMOUNT |-> t.amount]))>>

OrderStatusRead(t) ==
    LET Line(i) == T!Unchecked(T!Select("ORDER_LINE", <<t.w, t.d, t.o, i>>, {"I_ID", "AMOUNT", "DELIVERY_D"}))
    IN <<T!Unchecked(T!Select("CUSTOMER", <<t.w, t.d, t.c>>, {"BALANCE"})),
         T!Unchecked(T!Select("ORDER", <<t.w, t.d, t.o>>, {"CARRIER_ID"}))>> \o Lines(Line)

(* The lines are numbered from 1.                                          *)
DeliverRead(t) ==
    LET Line(i) == T!Unchecked(T!Select("ORDER_LINE", <<t.w, t.d, t.o, i>>, {"AMOUNT"}))
    IN <<T!Unchecked(T!Select("ORDER", <<t.w, t.d, t.o>>, {"C_ID"}))>> \o Lines(Line)
       \o <<T!Unchecked(T!Select("CUSTOMER", <<t.w, t.d, t.c>>, {"BALANCE", "DELIVERY_CNT"}))>>

DeliverWrite(t, res) ==
    LET customer == res[kLinePerOrder + 2]
        sum == MapThenSumSet(LAMBDA i : Value(res[1 + i], "AMOUNT"), 1..kLinePerOrder)
        Line(i) == T!Unchecked(T!Update("ORDER_LINE", <<t.w, t.d, t.o, i>>, [DELIVERY_D |-> 1]))
    IN <<T!Unchecked(T!Delete("NEW_ORDER", <<t.w, t.d, t.o>>)),
         T!Unchecked(T!Update("ORDER", <<t.w, t.d, t.o>>, [CARRIER_ID |-> 1]))>> \o Lines(Line)
       \o <<T!Unchecked(T!Update("CUSTOMER", <<t.w, t.d, t.c>>,
                                 [BALANCE |-> Value(customer, "BALANCE") + sum,
                                  DELIVERY_CNT |-> Value(customer, "DELIVERY_CNT") + 1]))>>

(* Here the lines are numbered from 0.                                     *)
StockLevelRead(t) ==
    LET Order(n) == t.o - kStockWindow + (n - 1) \div kLinePerOrder
        Line(n) == T!Unchecked(T!Select("ORDER_LINE", <<t.w, t.d, Order(n), (n - 1) % kLinePerOrder>>, {"I_ID"}))
    IN <<T!Unchecked(T!Select("DISTRICT", <<t.w, t.d>>, {"NEXT_O_ID"}))>>
       \o [n \in 1..(kStockWindow * kLinePerOrder) |-> Line(n)]
       \o [n \in 1..Len(t.items) |-> T!Unchecked(T!Select("STOCK", <<t.w, t.items[n]>>, {"QUANTITY"}))]

Reads(t) ==
    CASE t.name = "new_order" -> NewOrderRead(t)
      [] t.name = "payment" -> PaymentRead(t)
      [] t.name = "order_status" -> OrderStatusRead(t)
      [] t.name = "deliver" -> DeliverRead(t)
      [] t.name = "stock_level" -> StockLevelRead(t)

Writes(t, res) ==
    CASE t.name = "new_order" -> NewOrderWrite(t, res)
      [] t.name = "payment" -> PaymentWrite(t, res)
      [] t.name = "deliver" -> DeliverWrite(t, res)
      [] OTHER -> <<>>

(* The keys of a transaction: what the procedure touches when every read   *)
(* returns nothing.                                                        *)
TxnKeys(t) == T!GenerateKeys(Reads(t) \o Writes(t, [i \in 1..Len(Reads(t)) |-> T!Empty]))

-----------------------------------------------------------------------------
(***************************************************************************)
(* LoadTables at one partition.  Each thread loads the warehouses of its   *)
(* range that belong to the partition; the items are loaded once for each  *)
(* region, under the region's first warehouse of the partition.            *)
(***************************************************************************)
FromKey(thread, p) ==
    LET start == thread * (scenario.warehouses \div kDataGenThreads + 1)
    IN start + ((p - (start % scenario.partitions) + scenario.partitions) % scenario.partitions)

ToKey(thread) == Min({(thread + 1) * (scenario.warehouses \div kDataGenThreads + 1), scenario.warehouses})

LoadedBy(thread, p) ==
    {w \in (FromKey(thread, p) + 1)..ToKey(thread) : (w - 1 - FromKey(thread, p)) % scenario.partitions = 0}

LoadedWarehouses ==
    UNION {LoadedBy(thread, p) : thread \in 0..(kDataGenThreads - 1), p \in 0..(scenario.partitions - 1)}

RepresentativeWarehouses == 1..(scenario.regions * scenario.partitions)

LoadWarehouse(w, stock) ==
    {[table |-> "WAREHOUSE", pkey |-> <<w>>, row |-> [TAX |-> 10, YTD |-> 300000000]]}
    \cup {[table |-> "STOCK", pkey |-> <<w, i>>, row |-> [QUANTITY |-> stock[i]]] : i \in 1..kMaxItems}
    \cup {[table |-> "DISTRICT", pkey |-> <<w, d>>, row |-> [YTD |-> 300000, NEXT_O_ID |-> kOrdPerDist + 1]] :
              d \in 1..kDistPerWare}

LoadCustomer(w) ==
    {[table |-> "CUSTOMER", pkey |-> <<w, d, c>>,
      row |-> [DISCOUNT |-> 0, BALANCE |-> -10, YTD_PAYMENT |-> 100, PAYMENT_CNT |-> 1, DELIVERY_CNT |-> 0]] :
          d \in 1..kDistPerWare, c \in 1..kCustPerDist}
    \cup {[table |-> "HISTORY", pkey |-> <<w, d, c, 1>>, row |-> [AMOUNT |-> 100]] :
              d \in 1..kDistPerWare, c \in 1..kCustPerDist}

LoadOrder(w) ==
    LET Delivered(o) == IF o > kLastDelivered THEN 0 ELSE 1
    IN {[table |-> "ORDER", pkey |-> <<w, d, o>>,
         row |-> [C_ID |-> ((o - 1) % kCustPerDist) + 1, CARRIER_ID |-> Delivered(o), OL_CNT |-> kLinePerOrder]] :
             d \in 1..kDistPerWare, o \in 1..kOrdPerDist}
       \cup {[table |-> "NEW_ORDER", pkey |-> <<w, d, o>>, row |-> [DUMMY |-> 0]] :
                 d \in 1..kDistPerWare, o \in (kLastDelivered + 1)..kOrdPerDist}
       \cup {[table |-> "ORDER_LINE", pkey |-> <<w, d, o, l>>,
              row |-> [I_ID |-> 1, SUPPLY_W_ID |-> w, DELIVERY_D |-> Delivered(o), QUANTITY |-> 5, AMOUNT |-> 0]] :
                 d \in 1..kDistPerWare, o \in 1..kOrdPerDist, l \in 1..kLinePerOrder}

LoadItem ==
    {[table |-> "ITEM", pkey |-> <<w, i>>, row |-> [PRICE |-> 100]] :
        w \in RepresentativeWarehouses, i \in 1..kMaxItems}

LoadTables(stock) ==
    LET rows == LoadItem \cup
                UNION {LoadWarehouse(w, stock) \cup LoadCustomer(w) \cup LoadOrder(w) : w \in LoadedWarehouses}
        Row(k) == CHOOSE r \in rows : r.table = k[1] /\ r.pkey = k[2]
        keys == UNION {T!MakeStorageKeys(r.table, r.pkey, DOMAIN r.row) : r \in rows}
    IN [k \in keys |-> T!Slice(k, Row(k).row)]

-----------------------------------------------------------------------------
(***************************************************************************)
(* The workload.  In a deployment of one region (Calvin's) its replicas    *)
(* stand for the regions.  A generator is <<region, slot>>.                *)
(***************************************************************************)
GetNumRegions == IF scenario.regions = 1 THEN scenario.replicas ELSE scenario.regions

Generators == (0..(GetNumRegions - 1)) \X (1..scenario.generators)

(* warehouse_index_[partition][home]                                       *)
WarehouseIndex(p, home) ==
    {w \in 1..scenario.warehouses :
        /\ (w - 1) % scenario.partitions = p
        /\ ((w - 1) \div scenario.partitions) % GetNumRegions = home}

(* All the regions in one deployment of a single region look the same.     *)
GetRegionFromWarehouse(w) == ((w - 1) \div scenario.partitions) % scenario.regions

TPCCIds(init) == [o_id |-> kOrdPerDist + init, no_o_id |-> 1, h_id |-> init + 1]

Home(g) == UNION {WarehouseIndex(p, g[1]) : p \in 0..(scenario.partitions - 1)}

(* NextOId, NextNOOId and NextHId: the step between generators of a region *)
(* is not used.                                                            *)
NextId(g, w, d, id) == ids' = [ids EXCEPT ![g][w][d][id] = @ + 1]

(* The warehouses an order or a payment of partition p may use elsewhere.  *)
RemoteWarehouses(p, home) == WarehouseIndex(p, home)

(* The lists SelectRemoteWarehouses may return: one warehouse in each of   *)
(* up to "homes" - 1 other regions, in the same partition.                 *)
SelectRemoteWarehouses(g, p) ==
    LET most == Min({scenario.homes, GetNumRegions})
        Spread(list) == /\ \A i, j \in DOMAIN list : i # j => list[i][1] # list[j][1]
                        /\ \A i \in DOMAIN list : list[i][1] # g[1] /\ list[i][2] \in RemoteWarehouses(p, list[i][1])
        lists == {list \in UNION {[1..(n - 1) -> (0..(GetNumRegions - 1)) \X (1..scenario.warehouses)] : n \in 2..most} :
                     Spread(list)}
    IN CASE scenario.sh_only -> {<<w>> : w \in WarehouseIndex(p, g[1])}
         [] ~scenario.sh_only /\ most < 2 -> {<<>>}
         [] OTHER -> {[i \in DOMAIN list |-> list[i][2]] : list \in lists}

(* The transactions generator g may make next, with their profiles.  A     *)
(* line is remote or not at random; the item's warehouse is the partition  *)
(* counted over all the regions.                                           *)
OrderLine(i, w, remotes, choice) ==
    [id |-> i - 1, item |-> choice.item, quantity |-> choice.quantity,
     supply_w |-> IF choice.remote /\ remotes # <<>> THEN remotes[((i - 1) % Len(remotes)) + 1] ELSE w]

NewOrderTxn(g, p, w, d, c, remotes, choices) ==
    LET ol == [i \in 1..kLinePerOrder |-> OrderLine(i, w, remotes, choices[i])]
        mh == remotes # <<>> /\ \E i \in 1..kLinePerOrder : choices[i].remote
        regions == {GetRegionFromWarehouse(ol[i].supply_w) : i \in 1..kLinePerOrder}
    IN [name |-> "new_order", w |-> w, d |-> d, c |-> c, o |-> ids[g][w][d].o_id,
        i_w |-> p + g[1] * scenario.partitions + 1, ol |-> ol,
        multi_home |-> mh, foreign |-> mh /\ Cardinality(regions) = 1]

PaymentTxn(g, w, d, c, at, amount) ==
    [name |-> "payment", w |-> w, d |-> d, c |-> c, c_w |-> at.w, c_d |-> at.d, amount |-> amount,
     h |-> ids[g][w][d].h_id, multi_home |-> at.remote, foreign |-> at.remote]

LocalTxn(name, w, d, c, o, items) ==
    [name |-> name, w |-> w, d |-> d, c |-> c, o |-> o, items |-> items, multi_home |-> FALSE, foreign |-> FALSE]

(* NextTransaction.                                                        *)
Submit(g, t) ==
    /\ made[t.name] < scenario.limit[t.name]
    /\ made' = [made EXCEPT ![t.name] = @ + 1]
    /\ pending' = pending \cup {[id |-> made[t.name], client |-> g, txn |-> t]}
    /\ UNCHANGED <<scenario, store, done>>

NewOrder(g, p, w, d, c) ==
    /\ made["new_order"] < scenario.limit["new_order"]
    /\ \E remotes \in SelectRemoteWarehouses(g, p),
          choices \in [1..kLinePerOrder -> [remote : BOOLEAN, item : 1..kMaxItems, quantity : Quantities]] :
            Submit(g, NewOrderTxn(g, p, w, d, c, remotes, choices))
    /\ NextId(g, w, d, "o_id")
    /\ max_o_id' = [max_o_id EXCEPT ![g] = Max({@, ids[g][w][d].o_id})]

Payment(g, p, w, d, c) ==
    /\ made["payment"] < scenario.limit["payment"]
    /\ \E remotes \in SelectRemoteWarehouses(g, p), amount \in Amounts :
         \E at \in {[w |-> w, d |-> d, remote |-> FALSE]} \cup
                    {[w |-> remotes[i], d |-> e, remote |-> TRUE] : i \in DOMAIN remotes, e \in 1..kDistPerWare} :
            Submit(g, PaymentTxn(g, w, d, c, at, amount))
    /\ NextId(g, w, d, "h_id")
    /\ UNCHANGED max_o_id

OrderStatus(g, w, d, c) ==
    /\ \E o \in (max_o_id[g] - kStatusWindow)..max_o_id[g] : Submit(g, LocalTxn("order_status", w, d, c, o, <<>>))
    /\ UNCHANGED <<ids, max_o_id>>

Deliver(g, w, d, c) ==
    /\ Submit(g, LocalTxn("deliver", w, d, c, ids[g][w][d].no_o_id, <<>>))
    /\ NextId(g, w, d, "no_o_id")
    /\ UNCHANGED max_o_id

StockLevel(g, w, d, c) ==
    /\ \E item \in 1..kMaxItems : Submit(g, LocalTxn("stock_level", w, d, c, max_o_id[g], <<item>>))
    /\ UNCHANGED <<ids, max_o_id>>

(* A client other than the workload may send a procedure with another name *)
(* or another number of arguments.                                         *)
Malformed(g) ==
    /\ Submit(g, LocalTxn("malformed", 1, 1, 1, 1, <<>>))
    /\ UNCHANGED <<ids, max_o_id>>

Procedures == {"new_order", "payment", "order_status", "deliver", "stock_level", "malformed"}

-----------------------------------------------------------------------------
(***************************************************************************)
(* TPCCExecution::Execute at the server of the transaction's partition,    *)
(* with the values the servers read for it.                                *)
(***************************************************************************)
Buffer(t) ==
    LET types == TxnKeys(t)
    IN [keys |-> [k \in DOMAIN types |->
                     [type |-> types[k], value |-> IF k \in DOMAIN store THEN store[k] ELSE T!Empty,
                      new_value |-> T!Empty]],
        deleted |-> {}, ok |-> TRUE]

Results(t, buffer, garbage) == [i \in 1..Len(Reads(t)) |-> T!SelectRow(buffer, Reads(t)[i], garbage)]

(* Read, Compute, Write.                                                   *)
RunTxn(t, buffer, garbage) ==
    LET res == Results(t, buffer, garbage)
        found == \A i \in 1..Len(res) : Reads(t)[i].must => res[i] # T!Empty
    IN IF found THEN T!PerformAll(buffer, Writes(t, res)) ELSE [buffer EXCEPT !.ok = FALSE]

(* A key that was to be written and was not is stored empty.               *)
ApplyWrites(t, buffer) ==
    LET p == (t.w - 1) % scenario.partitions
        written == {k \in DOMAIN buffer.keys : ComputePartition(k) = p /\ buffer.keys[k].type = "WRITE"}
        after == [k \in written \cup DOMAIN store |-> IF k \in written THEN buffer.keys[k].new_value ELSE store[k]]
    IN [k \in DOMAIN after \ buffer.deleted |-> after[k]]

Finish(p, status) ==
    /\ pending' = pending \ {p}
    /\ done' = done \cup {[txn |-> p.txn, client |-> p.client, id |-> p.id, status |-> status]}
    /\ UNCHANGED <<scenario, ids, max_o_id, made>>

Execute(p) ==
    /\ p.txn.name # "malformed"
    /\ \E garbage \in Garbage :
        LET buffer == RunTxn(p.txn, Buffer(p.txn), garbage)
        IN IF buffer.ok THEN store' = ApplyWrites(p.txn, buffer) /\ Finish(p, "COMMITTED")
           ELSE UNCHANGED store /\ Finish(p, "ABORTED")

Refuse(p) ==
    /\ p.txn.name = "malformed"
    /\ UNCHANGED store
    /\ Finish(p, "ABORTED")

-----------------------------------------------------------------------------
TpccInit ==
    /\ scenario \in Scenarios
    /\ ids = [g \in Generators |-> [w \in Home(g) |-> [d \in 1..kDistPerWare |-> TPCCIds(g[2])]]]
    /\ max_o_id = [g \in Generators |-> kOrdPerDist]
    /\ made = [n \in Procedures |-> 0]
    /\ pending = {}
    /\ done = {}
    /\ \E stock \in [1..kMaxItems -> InitialStock] : store = LoadTables(stock)

TpccNext ==
    \/ \E g \in Generators, p \in 0..(scenario.partitions - 1), d \in 1..kDistPerWare, c \in 1..kCustPerDist :
         \E w \in WarehouseIndex(p, g[1]) :
            \/ NewOrder(g, p, w, d, c)
            \/ Payment(g, p, w, d, c)
            \/ OrderStatus(g, w, d, c)
            \/ Deliver(g, w, d, c)
            \/ StockLevel(g, w, d, c)
    \/ \E g \in Generators : Malformed(g)
    \/ \E p \in pending : Execute(p) \/ Refuse(p)

TpccSpec == TpccInit /\ [][TpccNext]_tpccVars

-----------------------------------------------------------------------------
Row(table, pkey) == {k \in DOMAIN store : k[1] = table /\ k[2] = pkey /\ store[k] # T!Empty}

Cell(table, pkey, column) == store[<<table, pkey, IF TpccSchema[table].grouped THEN "*" ELSE column>>][column]

Warehouses == 1..scenario.warehouses

Districts == Warehouses \X (1..kDistPerWare)

Customers == Warehouses \X (1..kDistPerWare) \X (1..kCustPerDist)

Orders(d) == {k \in DOMAIN store : k[1] = "ORDER" /\ <<k[2][1], k[2][2]>> = d /\ store[k] # T!Empty}

(* Every stored row is either empty or whole: an update never leaves a row *)
(* with some of its columns, whatever rows a delivery met.  (A grouped row *)
(* is one string, and the offsets of its columns assume a whole one.)      *)
TpccTypeOK ==
    /\ scenario \in Scenarios
    /\ \A k \in DOMAIN store : store[k] # T!Empty =>
          DOMAIN store[k] = IF k[3] = "*" THEN TpccSchema[k[1]].columns ELSE {k[3]}
    /\ \A p \in pending : p.txn.name \in Procedures

(* No money is lost between the tables: what the districts of a warehouse  *)
(* gained is what the warehouse gained, all the warehouses together gained *)
(* what the customers paid, and with one generator in a region that is the *)
(* amounts of the history rows that were added.  Balances and payments of  *)
(* a customer nobody delivered to add up to what was loaded.               *)
BooksBalance ==
    /\ \A w \in Warehouses :
          Cell("WAREHOUSE", <<w>>, "YTD") - 300000000
            = MapThenSumSet(LAMBDA d : Cell("DISTRICT", <<w, d>>, "YTD") - 300000, 1..kDistPerWare)
    /\ MapThenSumSet(LAMBDA w : Cell("WAREHOUSE", <<w>>, "YTD") - 300000000, Warehouses)
         = MapThenSumSet(LAMBDA c : Cell("CUSTOMER", c, "YTD_PAYMENT") - 100, Customers)
    /\ scenario.generators = 1 =>
         MapThenSumSet(LAMBDA c : Cell("CUSTOMER", c, "YTD_PAYMENT") - 100, Customers)
         = MapThenSumSet(LAMBDA k : store[k]["AMOUNT"], {k \in DOMAIN store : k[1] = "HISTORY" /\ k[2][4] > 1})
    /\ \A c \in Customers : Cell("CUSTOMER", c, "DELIVERY_CNT") = 0 =>
          Cell("CUSTOMER", c, "BALANCE") + Cell("CUSTOMER", c, "YTD_PAYMENT") = 90

(* A stock is never sold out nor overfull: NewOrder refills it by 91 in    *)
(* time, also when two lines of an order, or two orders, take the same     *)
(* item.                                                                   *)
StockInRange ==
    \A w \in Warehouses, i \in 1..kMaxItems : Cell("STOCK", <<w, i>>, "QUANTITY") \in 1..100

(* An order in the storage has all its lines, wherever the generator or    *)
(* the loader numbered them from, and waits for its delivery exactly while *)
(* NEW_ORDER says so, in whatever order the orders and the deliveries were *)
(* executed.                                                               *)
OrderComplete ==
    \A d \in Districts : \A k \in Orders(d) :
        /\ Cardinality({l \in DOMAIN store : l[1] = "ORDER_LINE" /\ SubSeq(l[2], 1, 3) = k[2] /\ store[l] # T!Empty})
             = store[k]["OL_CNT"]
        /\ store[k]["CARRIER_ID"] = 0 <=> Row("NEW_ORDER", k[2]) # {}

(* With one generator in a region, and nothing on its way, the orders of a *)
(* district are numbered without gaps up to the district's next order id:  *)
(* the client's id generator and the servers' counter agree.               *)
OrdersNumbered ==
    scenario.generators = 1 /\ pending = {} =>
        \A d \in Districts :
            {k[2][3] : k \in Orders(d)} = 1..(Cell("DISTRICT", d, "NEXT_O_ID") - 1)

(* What the workload generates commits, and only that: the keys fixed when *)
(* a transaction was made are enough when it executes, whatever was        *)
(* executed in between.                                                    *)
WorkloadCommits ==
    \A t \in done : t.status = "COMMITTED" <=> t.txn.name # "malformed"

(* The profile the benchmark reports is true: all the keys of a            *)
(* transaction are in one partition, and it is multi-home exactly when its *)
(* keys have several homes.  (In the single region of a Calvin deployment, *)
(* and for a single-home workload, the flag says something else.)          *)
ProfileTrue ==
    \A p \in pending : p.txn.name # "malformed" =>
        LET keys == DOMAIN TxnKeys(p.txn)
        IN /\ Cardinality({ComputePartition(k) : k \in keys}) = 1
           /\ scenario.regions > 1 /\ ~scenario.sh_only =>
                (p.txn.multi_home <=> Cardinality({ComputeHome(k) : k \in keys}) > 1)

(* Where the single region of a Calvin deployment has several replicas,    *)
(* the generators of all but the first look for items under a warehouse    *)
(* whose items the loader left out: the workload counts the replica        *)
(* (workload/tpcc.cpp:234), the loader the one region                      *)
(* (load_tables.cpp:197-203).  Such an order commits all the same, as an   *)
(* absent row is read like a present one, with a price from the memory     *)
(* behind an empty string.                                                 *)
ItemNotLoaded(p, read) ==
    read.table = "ITEM" /\ scenario.regions = 1 /\ p.client[1] > 0

(* Every warehouse, district, customer, item and stock row a generated     *)
(* order or payment reads was loaded at its partition, in every deployment *)
(* but the one above, and there exactly these item rows were not.          *)
ReadsLoadedRows ==
    \A p \in pending : p.txn.name \in {"new_order", "payment"} =>
        \A i \in 1..Len(Reads(p.txn)) :
            LET read == Reads(p.txn)[i]
            IN T!Keys(read) \subseteq DOMAIN store <=> ~ItemNotLoaded(p, read)

(* A delivered order has all its lines delivered: Deliver dates every line *)
(* of an order it finds (deliver.cpp numbers them from 1, as its test      *)
(* does).                                                                  *)
DeliveredWhole ==
    \A l \in DOMAIN store :
        LET order == <<"ORDER", SubSeq(l[2], 1, 3), "*">>
        IN l[1] = "ORDER_LINE" /\ store[l] # T!Empty /\ order \in DOMAIN store /\ store[order] # T!Empty =>
            (store[order]["CARRIER_ID"] # 0 <=> store[l]["DELIVERY_D"] # 0)
=============================================================================
