-------------------------------- MODULE Shop --------------------------------
(***************************************************************************)
(* apps/commerce around the orders of Purchase: how the user of Accounts   *)
(* becomes a seller with a store and products, and keeps a cart and an     *)
(* address book.                                                           *)
(*                                                                         *)
(* Two requests that each look for a row and then insert one are two steps *)
(* and may overlap.  The address book locks the row it works on, scans for *)
(* the default ones, and locks those one by one; all of it appears with    *)
(* the commit.  A handler that locks the one row it decides on before it   *)
(* reads it is a single action.                                            *)
(***************************************************************************)
EXTENDS Accounts, SequencesExt

CONSTANTS Slugs,          \* store slugs to choose from
          Products,       \* products a seller may create
          MaxAddresses,   \* bound on the addresses ever created
          MaxShopCalls,   \* bound on the calls made here
          Menus,          \* the groups of operations one behaviour draws on
          Nobody          \* the holder of an address row that is not locked

ASSUME ShopAssumption ==
    /\ MaxAddresses \in Nat /\ MaxShopCalls \in Nat
    /\ Menus \subseteq SUBSET {"identity", "records", "desk", "catalog", "addresses"}
    /\ Nobody \notin Procs

VARIABLES menu,          \* the groups of this behaviour
          applications,  \* the user's seller applications, oldest first
          stores,        \* the user's stores, oldest first
          products,      \* the status of each product of the first store
          cart,          \* the products in the user's cart
          addresses,     \* the committed addresses; ids grow with created_at
          made,          \* the ids given out so far
          holder,        \* who holds the row lock of each address
          job,           \* per thread: what it does between two statements
          overlapped,    \* history: have two such jobs ever overlapped?
          unset          \* history: has the user taken the flag off the default?

svars == <<menu, applications, stores, products, cart, addresses, made, holder,
           job, overlapped, unset>>
desk == <<applications, stores>>
book == <<addresses, made, holder, unset>>

Ids == 1..MaxAddresses
ActiveApplication == {"pending", "approved"}     \* _ACTIVE_APPLICATION_STATES
Absent == "absent"

Idle == [kind |-> "idle", seen |-> 0, slug |-> Absent, id |-> 0, flag |-> FALSE, wants |-> {}]
Job == [kind : {"idle", "submit", "open", "insert", "scan", "promote", "unset_others"},
        seen : Nat, slug : Slugs \cup {Absent}, id : {0} \cup Ids, flag : BOOLEAN,
        wants : SUBSET Ids]

ShopTypeOK ==
    /\ menu \in Menus
    /\ applications \in Seq(ActiveApplication \cup {"rejected"})
    /\ stores \in Seq([slug : Slugs, is_active : BOOLEAN])
    /\ products \in [Products -> {Absent, "draft", "active", "archived"}]
    /\ cart \subseteq Products
    /\ addresses \in [Ids -> {Absent, "plain", "default"}]
    /\ made \in {0} \cup Ids
    /\ holder \in [Ids -> Procs \cup {Nobody}]
    /\ job \in [Procs -> Job]
    /\ overlapped \in BOOLEAN /\ unset \in BOOLEAN

\* The desk is open to an account that exists already.
ShopInit ==
    /\ Init
    /\ menu \in Menus
    /\ "identity" \notin menu => user.registered /\ atomic
    /\ "records" \notin menu => kyc = NoKyc
    /\ applications = <<>>
    /\ stores = <<>>
    /\ products = [x \in Products |-> Absent]
    /\ cart = {}
    /\ addresses = [a \in Ids |-> Absent]
    /\ made = 0
    /\ holder = [a \in Ids |-> Nobody]
    /\ job = [p \in Procs |-> Idle]
    /\ overlapped = FALSE
    /\ unset = FALSE

-----------------------------------------------------------------------------
(* Steps the handlers share *)

\* A call of one of the groups, by a thread that does nothing else.
Enter(p, group) ==
    /\ group \in menu
    /\ pc[p] = "idle" /\ job[p] = Idle
    /\ calls < MaxShopCalls /\ calls' = calls + 1
    /\ user.registered
    /\ UNCHANGED <<atomic, sessions, tokens, issued, verified, kyc, settings,
                   pc, arg, copy, kcopy, menu>>

\* The call goes on: another one may be on its way too.
Goes(p, j) ==
    /\ job' = [job EXCEPT ![p] = j]
    /\ overlapped' = (overlapped \/ \E q \in Procs \ {p} : job[q] # Idle)

Proceeds(p, j) == job' = [job EXCEPT ![p] = j] /\ UNCHANGED overlapped

AtOnce == UNCHANGED <<job, overlapped>>

Rest == UNCHANGED <<atomic, user, sessions, tokens, issued, verified, kyc, settings,
                    calls, pc, arg, copy, kcopy, menu>>

-----------------------------------------------------------------------------
(* The seller's desk *)

\* Defect: no look at the applications there are.
CheckNothing(p) ==
    /\ Enter(p, "desk")
    /\ Goes(p, [Idle EXCEPT !.kind = "submit", !.seen = Len(applications)])
    /\ UNCHANGED <<user, desk, products, cart, book>>

\* submit_seller_application: no active application is found ...
CheckApplication(p) ==
    /\ Enter(p, "desk")
    /\ \A i \in DOMAIN applications : applications[i] \notin ActiveApplication
    /\ Goes(p, [Idle EXCEPT !.kind = "submit", !.seen = Len(applications)])
    /\ UNCHANGED <<user, desk, products, cart, book>>

\* ... and one is created: no index on the table refuses a second.
SubmitApplication(p) ==
    /\ job[p].kind = "submit"
    /\ applications' = Append(applications, "pending")
    /\ Proceeds(p, Idle)
    /\ UNCHANGED <<stores, products, cart, book>>
    /\ Rest

\* get_my_application: the latest.
MyApplication == Last(applications)

\* mark_seller.
MarkSeller == user' = [user EXCEPT !.is_seller = TRUE]

ApproveApplication(p) ==
    /\ Enter(p, "desk")
    /\ \E i \in DOMAIN applications :
         /\ applications[i] = "pending"
         /\ applications' = [applications EXCEPT ![i] = "approved"]
    /\ MarkSeller
    /\ AtOnce
    /\ UNCHANGED <<stores, products, cart, book>>

RejectApplication(p) ==
    /\ Enter(p, "desk")
    /\ \E i \in DOMAIN applications :
         /\ applications[i] = "pending"
         /\ applications' = [applications EXCEPT ![i] = "rejected"]
    /\ AtOnce
    /\ UNCHANGED <<user, stores, products, cart, book>>

\* create_store: the checks ...
CheckStore(p) ==
    /\ Enter(p, "desk")
    /\ \E i \in DOMAIN applications : applications[i] = "approved"
    /\ stores = <<>>
    /\ \E s \in Slugs : Goes(p, [Idle EXCEPT !.kind = "open", !.slug = s])
    /\ UNCHANGED <<user, desk, products, cart, book>>

\* ... and the row: the slug is unique, the owner is not.
OpenStore(p) ==
    /\ job[p].kind = "open"
    /\ stores' = IF \E i \in DOMAIN stores : stores[i].slug = job[p].slug
                 THEN stores
                 ELSE Append(stores, [slug |-> job[p].slug, is_active |-> TRUE])
    /\ Proceeds(p, Idle)
    /\ UNCHANGED <<applications, products, cart, book>>
    /\ Rest

\* _my_store: the oldest one.
MyStore == Head(stores)

\* get_public_store, public_store_products_queryset: the store of a slug, while it is active.
PublicStore(s) == {i \in DOMAIN stores : stores[i].slug = s /\ stores[i].is_active}

\* update_store.
UpdateStore(p) ==
    /\ Enter(p, "desk")
    /\ stores # <<>>
    /\ stores' = [stores EXCEPT ![1].is_active = ~MyStore.is_active]
    /\ AtOnce
    /\ UNCHANGED <<user, applications, products, cart, book>>

-----------------------------------------------------------------------------
(* Products and the cart *)

CreateProduct(p) ==
    /\ Enter(p, "catalog")
    /\ stores # <<>>
    /\ \E x \in Products, status \in {"draft", "active"} :
         /\ products[x] = Absent
         /\ products' = [products EXCEPT ![x] = status]
    /\ AtOnce
    /\ UNCHANGED <<user, desk, cart, book>>

\* update_seller_product: any status, from any status.
UpdateProduct(p) ==
    /\ Enter(p, "catalog")
    /\ \E x \in Products, status \in {"draft", "active", "archived"} :
         /\ products[x] # Absent
         /\ products' = [products EXCEPT ![x] = status]
    /\ AtOnce
    /\ UNCHANGED <<user, desk, cart, book>>

ArchiveProduct(p) ==
    /\ Enter(p, "catalog")
    /\ \E x \in Products :
         /\ products[x] \notin {Absent, "archived"}
         /\ products' = [products EXCEPT ![x] = "archived"]
    /\ AtOnce
    /\ UNCHANGED <<user, desk, cart, book>>

\* products_queryset and products_by_ids: what is listed and what a card is shown of.
\* The store's is_active is not looked at.
Listed == {x \in Products : products[x] = "active"}

\* get_product.
Found(x) == products[x] = "active"

\* seller_products_queryset and get_seller_product.
SellerProducts == IF stores = <<>> THEN {} ELSE {x \in Products : products[x] # Absent}

\* add_to_cart: the row is unique, adding it again changes nothing.
AddToCart(p) ==
    /\ Enter(p, "catalog")
    /\ \E x \in Products : Found(x) /\ cart' = cart \cup {x}
    /\ AtOnce
    /\ UNCHANGED <<user, desk, products, book>>

\* cart_queryset: products that are no longer on sale are listed as well.
CartListed == cart

\* remove_from_cart.
RemoveFromCart(p) ==
    /\ Enter(p, "catalog")
    /\ \E x \in CartListed : cart' = cart \ {x}
    /\ AtOnce
    /\ UNCHANGED <<user, desk, products, book>>

-----------------------------------------------------------------------------
(* The address book *)

Defaults == {a \in Ids : addresses[a] = "default"}
Stored == {a \in Ids : addresses[a] # Absent}

\* create_address: the first one is the default whatever the flag says ...
CheckFirst(p) ==
    /\ Enter(p, "addresses")
    /\ \E flag \in BOOLEAN :
         Goes(p, [Idle EXCEPT !.kind = "insert", !.flag = (flag \/ Stored = {})])
    /\ UNCHANGED <<user, desk, products, cart, book>>

\* ... and the row is inserted.
InsertAddress(p) ==
    /\ job[p].kind = "insert"
    /\ made < MaxAddresses
    /\ made' = made + 1
    /\ holder' = [holder EXCEPT ![made + 1] = p]
    /\ Proceeds(p, [job[p] EXCEPT !.kind = "scan", !.id = made + 1])
    /\ UNCHANGED <<desk, products, cart, addresses, unset>>
    /\ Rest

\* update_address: the row, locked and saved with the new flag, if one is given.
LockForUpdate(p) ==
    /\ Enter(p, "addresses")
    /\ \E a \in Stored, given \in {{}, {TRUE}, {FALSE}} :
         /\ holder[a] = Nobody
         /\ holder' = [holder EXCEPT ![a] = p]
         /\ LET flag == IF given = {} THEN addresses[a] = "default" ELSE TRUE \in given
            IN  /\ Goes(p, [Idle EXCEPT !.kind = "scan", !.id = a, !.flag = flag])
                /\ unset' = (unset \/ (addresses[a] = "default" /\ ~flag))
    /\ UNCHANGED <<user, desk, products, cart, addresses, made>>

\* delete_address: the row, locked and deleted.
LockForDelete(p) ==
    /\ Enter(p, "addresses")
    /\ \E a \in Stored :
         /\ holder[a] = Nobody
         /\ holder' = [holder EXCEPT ![a] = p]
         /\ Goes(p, [Idle EXCEPT !.kind = "promote", !.id = a,
                                 !.flag = (addresses[a] = "default")])
    /\ UNCHANGED <<user, desk, products, cart, addresses, made, unset>>

\* _unset_other_defaults: the committed defaults at the start of the UPDATE ...
ScanDefaults(p) ==
    /\ job[p].kind = "scan"
    /\ Proceeds(p, [job[p] EXCEPT !.kind = "unset_others",
                                  !.wants = IF job[p].flag THEN Defaults \ {job[p].id} ELSE {}])
    /\ UNCHANGED <<desk, products, cart, book>>
    /\ Rest

\* ... each of which it locks, when its holder lets go.
LockDefault(p) ==
    /\ job[p].kind = "unset_others"
    /\ \E a \in job[p].wants : holder[a] = Nobody /\ holder' = [holder EXCEPT ![a] = p]
    /\ UNCHANGED <<desk, products, cart, addresses, made, unset, job, overlapped>>
    /\ Rest

Released(p) == [a \in Ids |-> IF holder[a] = p THEN Nobody ELSE holder[a]]

\* The commit.  A row that is no default any more by the time it is locked is left
\* alone, and so is one that was deleted.
CommitAddress(p) ==
    /\ job[p].kind = "unset_others"
    /\ \A a \in job[p].wants : holder[a] = p
    /\ addresses' = [a \in Ids |->
         CASE a = job[p].id                                    -> IF job[p].flag THEN "default" ELSE "plain"
           [] a \in job[p].wants /\ addresses[a] = "default"   -> "plain"
           [] OTHER                                            -> addresses[a]]
    /\ holder' = Released(p)
    /\ Proceeds(p, Idle)
    /\ UNCHANGED <<desk, products, cart, made, unset>>
    /\ Rest

\* The end of delete_address: the newest other address of those committed takes over
\* the flag; its UPDATE waits for whoever holds the row.
Newest(p) == {a \in Stored \ {job[p].id} : \A b \in Stored \ {job[p].id} : b <= a}

\* Defect: the flag goes with the row.
PromoteNone(p) ==
    /\ job[p].kind = "promote"
    /\ addresses' = [addresses EXCEPT ![job[p].id] = Absent]
    /\ holder' = Released(p)
    /\ Proceeds(p, Idle)
    /\ UNCHANGED <<desk, products, cart, made, unset>>
    /\ Rest

PromoteNewest(p) ==
    /\ job[p].kind = "promote"
    /\ LET next == IF job[p].flag THEN Newest(p) ELSE {}
       IN  /\ \A a \in next : holder[a] = Nobody
           /\ addresses' = [a \in Ids |-> CASE a = job[p].id -> Absent
                                            [] a \in next    -> "default"
                                            [] OTHER         -> addresses[a]]
    /\ holder' = Released(p)
    /\ Proceeds(p, Idle)
    /\ UNCHANGED <<desk, products, cart, made, unset>>
    /\ Rest

\* What a thread's statement waits for.
Awaited(p) ==
    CASE job[p].kind = "unset_others"               -> job[p].wants
      [] job[p].kind = "promote" /\ job[p].flag     -> Newest(p)
      [] OTHER                                      -> {}

\* PostgreSQL resolves a cycle of two waiting transactions by aborting one.
AbortDeadlock(p) ==
    /\ \E q \in Procs \ {p} :
         /\ \E a \in Awaited(p) : holder[a] = q
         /\ \E a \in Awaited(q) : holder[a] = p
    /\ holder' = Released(p)
    /\ Proceeds(p, Idle)
    /\ UNCHANGED <<desk, products, cart, addresses, made, unset>>
    /\ Rest

\* _resolve_shipping_snapshot: an order copies an address, and one for a physical
\* product needs one.
ShippingChoices(physical) == Stored \cup (IF physical THEN {} ELSE {0})

-----------------------------------------------------------------------------

ShopNext ==
    \/ "identity" \in menu /\ AccountNext /\ UNCHANGED svars
    \/ "records" \in menu /\ RecordsNext /\ UNCHANGED svars
    \/ \E p \in Procs : "desk" \in menu /\ job[p] = Idle /\ UNCHANGED svars
                          /\ (ReadProfile(p) \/ WriteProfile(p))
    \/ \E p \in Procs :
         \/ CheckApplication(p) \/ SubmitApplication(p)
         \/ ApproveApplication(p) \/ RejectApplication(p)
         \/ CheckStore(p) \/ OpenStore(p) \/ UpdateStore(p)
         \/ CreateProduct(p) \/ UpdateProduct(p) \/ ArchiveProduct(p)
         \/ AddToCart(p) \/ RemoveFromCart(p)
         \/ CheckFirst(p) \/ InsertAddress(p) \/ LockForUpdate(p) \/ LockForDelete(p)
         \/ ScanDefaults(p) \/ LockDefault(p) \/ CommitAddress(p)
         \/ PromoteNewest(p) \/ AbortDeadlock(p)

ShopSpec == ShopInit /\ [][ShopNext]_<<vars, svars>>

-----------------------------------------------------------------------------
(* Properties *)

Applying == {i \in DOMAIN applications : applications[i] \in ActiveApplication}

\* A store belongs to someone who was approved and whom identity knows as a seller;
\* whatever is on sale or in a cart is the store's; a slug leads to one store; and nobody has two active
\* applications or two stores unless two requests overlapped (models.py,
\* SellerApplication: "At most one active (pending or approved) application per
\* user"; create_store: STORE_ALREADY_EXISTS).
DeskSound ==
    /\ ShopTypeOK
    /\ stores # <<>> => user.is_seller /\ "approved" \in ToSet(applications)
    /\ user.is_seller <=> "approved" \in ToSet(applications)
    /\ Listed \cup CartListed \subseteq SellerProducts
    /\ \A s \in Slugs : Cardinality(PublicStore(s)) <= 1
    /\ ~overlapped =>
         /\ Len(stores) <= 1
         /\ Cardinality(Applying) <= 1

\* "Keep exactly one default" (delete_address): of a user whose calls never overlapped,
\* and who did not take the flag off the default, a book that is not empty has exactly
\* one default in all that is committed; it never has more than one.
OneDefaultUnlessOverlapping ==
    ~overlapped =>
        /\ Cardinality(Defaults) <= 1
        /\ Stored # {} /\ ~unset => Defaults # {}

-----------------------------------------------------------------------------
(* The inductive invariant *)

\* The desk: what was approved stays so, and nothing is sold without a store.
DeskKnows ==
    /\ user.is_seller <=> "approved" \in ToSet(applications)
    /\ stores # <<>> => "approved" \in ToSet(applications)
    /\ \A p \in Procs : job[p].kind = "open" =>
            job[p].slug \in Slugs /\ "approved" \in ToSet(applications)
    /\ \A i, j \in DOMAIN stores : stores[i].slug = stores[j].slug => i = j
    /\ \A x \in Products : products[x] # Absent => stores # <<>>
    /\ \A x \in cart : products[x] # Absent

\* As long as no two calls overlapped, what a call checked is still true when it writes.
DeskCallKnows(p) ==
    /\ job[p].kind = "open" => stores = <<>>
    /\ job[p].kind = "submit" => Applying = {}

DeskAlone ==
    ~overlapped =>
        /\ \A p, q \in Procs : job[p] # Idle /\ job[q] # Idle => p = q
        /\ Len(stores) <= 1
        /\ \A i, j \in Applying : i = j
        /\ \A p \in Procs : DeskCallKnows(p)

\* The address book: ids come in order, and a call works on one of them.
BookNumbered ==
    /\ Stored \subseteq 1..made
    /\ \A p \in Procs : /\ job[p].id <= made
                        /\ job[p].kind \in {"scan", "unset_others", "promote"} => job[p].id # 0
                        /\ job[p].kind = "unset_others" => job[p].id \notin job[p].wants

\* A call that will not leave the flag somewhere found it elsewhere, or takes it off.
BookCallKnows(p) ==
    LET j == job[p]
    IN  /\ j.kind = "insert" /\ ~j.flag => Stored # {}
        /\ j.kind \in {"scan", "unset_others"} /\ ~j.flag =>
              Stored # {} /\ (j.id \in Defaults => unset)
        /\ j.kind = "unset_others" => j.wants = IF j.flag THEN Defaults \ {j.id} ELSE {}
        /\ j.kind = "promote" => j.id \in Stored /\ (j.flag <=> j.id \in Defaults)

BookAlone ==
    ~overlapped =>
        /\ \A a, b \in Defaults : a = b
        /\ Stored # {} /\ ~unset => Defaults # {}
        /\ \A p \in Procs : BookCallKnows(p)

ShopInv == ShopTypeOK /\ DeskKnows /\ DeskAlone /\ BookNumbered /\ BookAlone
=============================================================================
