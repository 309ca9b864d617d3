------------------------------ MODULE Catalogue ------------------------------
(***************************************************************************)
(* The catalogue and the people who edit it: products, categories, their   *)
(* images and the stock, changed by the web panel (web/admin.py), by the   *)
(* dialogs of an administrator in the bot (handlers/admin/) and by sales.  *)
(*                                                                         *)
(* A request of the panel reads the row, writes the uploaded image, then   *)
(* commits, then removes the image the row no longer names; a failure      *)
(* before the commit removes the new one.  Requests run side by side: each *)
(* knows the row as it was when it read it, and its UPDATE writes only     *)
(* what differs from that.                                                 *)
(*                                                                         *)
(* The bot keeps one dialog per administrator in Redis: it survives a      *)
(* restart, the handler that was carrying it out does not.  Only the menu  *)
(* clears it: a button of an older message opens another dialog on the     *)
(* data of the first.  Products are looked up by name at each step.  Name, *)
(* description and price of a product are texts the dialog collects and    *)
(* update_item then refuses (it is given the id of the category for its    *)
(* name), so that an update changes the stock only.                        *)
(*                                                                         *)
(* Deleting a category asks the mapper to empty category_id of its         *)
(* products, which the column forbids: a category with products stays.     *)
(* Cart rows, drafts and the purchases before orders existed, which also   *)
(* hold a product in the panel, are left out; so are the display order and *)
(* the caches of the names (see Shop).                                     *)
(***************************************************************************)
EXTENDS Reviews, FiniteSets, Relation

CONSTANTS Cats,      \* ids of categories, those not given yet included
          Names, Values,
          Files,     \* image files, named by a new uuid each
          FirstRows, FirstSales, \* the rows and the sold items at first
          MaxTyped,  \* bound: values typed into one dialog
          MaxSaves,  \* bound: requests of the panel under way
          MaxBegun   \* bound: requests, dialogs, reviews and sales begun

Ids == Goods \union Cats
Row == [name : Names, up : Cats \union {None}, image : Files \union {None}]

ASSUME CatalogueAssumption ==
  /\ Goods \intersect Cats = {} /\ Files \intersect Ids = {}
  /\ None \notin Cats \union Files \union Row
  /\ {MaxTyped, MaxSaves, MaxBegun} \subseteq Nat

\* Names are unique, an image belongs to one row, and what a row names is there.
ASSUME FirstAssumption ==
  /\ FirstRows \in [Ids -> {None} \union Row]
  /\ FirstSales \in [Items -> Goods \union {None}]
  /\ \A x, y \in Ids : x # y /\ None \notin {FirstRows[x], FirstRows[y]} =>
       /\ (x \in Goods <=> y \in Goods) => FirstRows[x].name # FirstRows[y].name
       /\ FirstRows[x].image # None => FirstRows[x].image # FirstRows[y].image
  /\ \A x \in Ids : FirstRows[x] # None =>
       (FirstRows[x].up # None => FirstRows[FirstRows[x].up] # None)
  /\ \A i \in Items : FirstSales[i] # None => FirstRows[FirstSales[i]] # None

VARIABLES
  files,   \* the files on disk
  fresh,   \* ids and files that were never used
  stock,   \* item_values
  saves,   \* requests of the panel under way
  dialog,  \* FSM of an administrator
  job,     \* the handler that carries out the end of a dialog
  begun

shelf == <<rows, product, stock>>
disk == <<files, fresh>>
catalogueVars == <<shelf, reviewVars, disk, saves, dialog, job, begun>>

NoDialog == [step |-> "none", name |-> None, cat |-> None, infinite |-> FALSE, values |-> {}]

CatalogueInit ==
  /\ rows = FirstRows /\ product = FirstSales /\ ReviewsInit
  /\ files = {rows[x].image : x \in {y \in Ids : rows[y] # None}} \ {None}
  /\ fresh = {x \in Ids : rows[x] = None} \union (Files \ files)
  /\ stock = {} /\ saves = {} /\ dialog = NoDialog /\ job = None /\ begun = 0

Begin == begun < MaxBegun /\ begun' = begun + 1

------------------------------------------------------------------------------
(* Rows. *)

Alike(x) == IF x \in Goods THEN Goods ELSE Cats
Called(n, of) == {x \in of : rows[x] # None /\ rows[x].name = n}
Exists(x) == rows[x] # None

\* Names are unique, and the row above has to be there.
Accepted(x, row) ==
  /\ Called(row.name, Alike(x)) \subseteq {x}
  /\ row.up # None => Exists(row.up)

\* normalize_parent_id follows the parents; on a loop it never returns.
Under == [p \in Cats \X Cats |-> Exists(p[1]) /\ rows[p[1]].up = p[2]]
MayMove(x, up) ==
  up # None =>
    /\ Exists(up) /\ up # x
    /\ LET above == TransitiveClosure(Under, Cats)
       IN Exists(x) => \A c \in Cats : c = up \/ above[up, c] => c # x /\ ~above[c, c]

\* What the database does to the rest when a row goes.
Gone(x) ==
  /\ rows' = [y \in Ids |-> IF y = x THEN None
                            ELSE IF Exists(y) /\ rows[y].up = x THEN [rows[y] EXCEPT !.up = None]
                            ELSE rows[y]]
  /\ product' = [i \in Items |-> IF product[i] = x THEN None ELSE product[i]]
  /\ stock' = {v \in stock : v.item # x}
  /\ reviews' = [i \in Items |-> IF reviews[i] # None /\ reviews[i].product = x THEN None ELSE reviews[i]]
  /\ UNCHANGED <<talk, sending, shown>>

Empty(x) == \A g \in Goods : Exists(g) => rows[g].up # x

------------------------------------------------------------------------------
(* The web panel. *)

\* Fault: the new image replaces the old one on disk at once.
Replaced(old, new) == (files \ {old}) \union ({new} \ {None})

Written(old, new) == files \union ({new} \ {None, old})

ImageOf(row) == IF row = None THEN None ELSE row.image

\* A row is created (seen is None) or edited; the form brings a new image
\* file, keeps the old one, or removes it.
Submitted(x, want) ==
  LET seen == rows[x]
  IN /\ Begin /\ Cardinality(saves) < MaxSaves
     /\ seen = None => x \in fresh
     /\ want # seen
     /\ want.image \in {None, ImageOf(seen)} \union (fresh \intersect Files)
     /\ files' = Written(ImageOf(seen), want.image)
     /\ fresh' = fresh \ {x, want.image}
     /\ saves' = saves \union {[row |-> x, seen |-> seen, want |-> want, done |-> FALSE]}
     /\ UNCHANGED <<shelf, reviewVars, dialog, job>>

SaveCategory(c, want) == MayMove(c, want.up) /\ Submitted(c, want)

SaveProduct(g, want) == want.up # None /\ Exists(want.up) /\ Submitted(g, want)

\* A product that was ever ordered is kept: the rule of one deletion and of a
\* selection of several.
Unordered(x) == \A i \in Items : product[i] # x

\* The check is a transaction of its own, before the deletion.
Delete(x) ==
  /\ Begin /\ Cardinality(saves) < MaxSaves
  /\ Exists(x) /\ Unordered(x)
  /\ saves' = saves \union {[row |-> x, seen |-> rows[x], want |-> None, done |-> FALSE]}
  /\ UNCHANGED <<shelf, reviewVars, disk, dialog, job>>

\* The columns the request changed, over the row as it is now.
Merged(now, s) ==
  IF s.seen = None THEN s.want
  ELSE [c \in DOMAIN now |-> IF s.want[c] = s.seen[c] THEN now[c] ELSE s.want[c]]

Inserted(s) == s.seen = None /\ Accepted(s.row, s.want)

Updated(s) == s.seen # None /\ Exists(s.row) /\ Accepted(s.row, Merged(rows[s.row], s))

Commit(s) ==
  /\ ~s.done
  /\ saves' = (saves \ {s}) \union {[s EXCEPT !.done = TRUE]}
  /\ \/ s.want = None /\ Empty(s.row) /\ Gone(s.row)
     \/ /\ s.want # None /\ (Inserted(s) \/ Updated(s))
        /\ rows' = [rows EXCEPT ![s.row] = Merged(@, s)]
        /\ UNCHANGED <<product, stock, reviewVars>>
  /\ UNCHANGED <<disk, dialog, job, begun>>

\* The file the row had when it was read, or is to have, unless they agree.
Orphaned(file, s) == IF ImageOf(s.want) = ImageOf(s.seen) THEN files ELSE files \ {file}

\* The commit, or a check after the upload, fails: the new image goes.
Fail(s) ==
  /\ ~s.done
  /\ saves' = saves \ {s} /\ files' = Orphaned(ImageOf(s.want), s)
  /\ UNCHANGED <<shelf, reviewVars, fresh, dialog, job, begun>>

\* After the commit, the old one.
Tidy(s) ==
  /\ s.done
  /\ saves' = saves \ {s} /\ files' = Orphaned(ImageOf(s.seen), s)
  /\ UNCHANGED <<shelf, reviewVars, fresh, dialog, job, begun>>

Units(g) == {v \in stock : v.item = g}

Insert(g, value, infinite) ==
  stock' = IF \E v \in Units(g) : v.value = value THEN stock
           ELSE stock \union {[item |-> g, value |-> value, infinite |-> infinite]}

WebStock(g, value, infinite) ==
  /\ Exists(g) /\ Begin
  /\ Insert(g, value, infinite)
  /\ UNCHANGED <<rows, product, reviewVars, disk, saves, dialog, job>>

\* A row of the stock is deleted, in the panel or from the bot's list.
DeleteValue(v) ==
  /\ v \in stock
  /\ stock' = stock \ {v}
  /\ UNCHANGED <<rows, product, reviewVars, disk, saves, dialog, job, begun>>

\* The customer buys and is served (Storefront).
Sell(i, v) ==
  /\ v \in stock /\ product[i] = None /\ reviews[i] = None /\ Begin
  /\ product' = [product EXCEPT ![i] = v.item]
  /\ stock' = IF v.infinite THEN stock ELSE stock \ {v}
  /\ UNCHANGED <<rows, reviewVars, disk, saves, dialog, job>>

------------------------------------------------------------------------------
(* The dialogs of an administrator in the bot. *)

Unlimited(g) == \E v \in Units(g) : v.infinite

aside == <<reviewVars, disk, saves>>

\* The menu of the goods, and "Back", clear the FSM.
Menu ==
  /\ dialog # NoDialog /\ job = None
  /\ dialog' = NoDialog
  /\ UNCHANGED <<shelf, aside, job, begun>>

Openings == {"add", "refill", "update", "delete", "new category", "delete category", "rename"}

\* The buttons set the state and keep the data.
Open(step) ==
  /\ job = None /\ Begin
  /\ dialog' = [dialog EXCEPT !.step = step]
  /\ UNCHANGED <<shelf, aside, job>>

Goto(step, n) == dialog' = [dialog EXCEPT !.step = step, !.name = n]

Asked(step) == job = None /\ dialog.step = step

\* The name of a product to be, or of one there is, is typed.
NameToAdd(n) ==
  /\ Asked("add") /\ Called(n, Goods) = {} /\ Goto("category", n)
  /\ UNCHANGED <<shelf, aside, job, begun>>

NameToRefill(n) ==
  /\ Asked("refill") /\ \E g \in Called(n, Goods) : ~Unlimited(g)
  /\ Goto("refill values", n)
  /\ UNCHANGED <<shelf, aside, job, begun>>

NameToUpdate(n) ==
  /\ Asked("update")
  /\ \E g \in Called(n, Goods) :
       dialog' = [dialog EXCEPT !.step = "switch", !.name = n, !.infinite = ~Unlimited(g)]
  /\ UNCHANGED <<shelf, aside, job, begun>>

\* delete_item does not ask whether the product was ordered.
DeleteProduct(g) ==
  /\ Asked("delete") /\ Exists(g)
  /\ Gone(g) /\ dialog' = NoDialog
  /\ UNCHANGED <<disk, saves, job, begun>>

NewCategory(n) ==
  /\ Asked("new category") /\ Called(n, Cats) = {} /\ dialog' = NoDialog
  /\ \E c \in fresh \intersect Cats :
       /\ fresh' = fresh \ {c}
       /\ rows' = [rows EXCEPT ![c] = [name |-> n, up |-> None, image |-> None]]
  /\ UNCHANGED <<product, stock, reviewVars, files, saves, job, begun>>

DeleteCategory(n) ==
  /\ Asked("delete category") /\ dialog' = NoDialog
  /\ \E c \in Called(n, Cats) : Empty(c) /\ Gone(c)
  /\ UNCHANGED <<disk, saves, job, begun>>

NameToRename(n) ==
  /\ Asked("rename") /\ Called(n, Cats) # {} /\ Goto("new name", n)
  /\ UNCHANGED <<shelf, aside, job, begun>>

RenameCategory(n) ==
  /\ Asked("new name") /\ Called(n, Cats) = {} /\ dialog' = NoDialog
  /\ \E c \in Called(dialog.name, Cats) : rows' = [rows EXCEPT ![c].name = n]
  /\ UNCHANGED <<product, stock, aside, job, begun>>

PickCategory(n) ==
  /\ Asked("category") /\ Called(n, Cats) # {}
  /\ dialog' = [dialog EXCEPT !.step = "kind", !.cat = n]
  /\ UNCHANGED <<shelf, aside, job, begun>>

\* A new product is unlimited or not; an old one may be switched.
Kind(yes) ==
  /\ Asked("kind")
  /\ dialog' = [dialog EXCEPT !.infinite = yes, !.step = IF yes THEN "add one" ELSE "add values"]
  /\ UNCHANGED <<shelf, aside, job, begun>>

Switch(yes) ==
  /\ Asked("switch")
  /\ dialog' = IF ~yes THEN NoDialog
               ELSE [dialog EXCEPT !.step = IF dialog.infinite THEN "switch one" ELSE "switch values"]
  /\ UNCHANGED <<shelf, aside, job, begun>>

Collecting == {"add values", "refill values", "switch values"}

TypeValue(v) ==
  /\ job = None /\ dialog.step \in Collecting
  /\ Cardinality(dialog.values \union {v}) =< MaxTyped
  /\ dialog' = [dialog EXCEPT !.values = @ \union {v}]
  /\ UNCHANGED <<shelf, aside, job, begun>>

\* create_item does nothing for a name that is taken or a category that is
\* gone; the values that follow go to whatever product has the name.
Create ==
  LET c == Called(dialog.cat, Cats)
  IN IF Called(dialog.name, Goods) # {} \/ c = {} THEN UNCHANGED <<rows, stock, fresh>>
     ELSE \E g \in fresh \intersect Goods, up \in c :
            /\ fresh' = fresh \ {g}
            /\ rows' = [rows EXCEPT ![g] = [name |-> dialog.name, up |-> up, image |-> None]]
            /\ UNCHANGED stock

\* A switch drops the whole stock before the new values are added.
Purge ==
  /\ stock' = {v \in stock : v.item \notin Called(dialog.name, Goods)}
  /\ UNCHANGED <<rows, fresh>>

\* The handler that ends a dialog begins with its first transaction, and goes
\* on to add the values.
Carry(values) ==
  /\ values # {} /\ job' = values
  /\ UNCHANGED <<product, reviewVars, files, saves, dialog, begun>>

FinishNew == Asked("add values") /\ Create /\ Carry(dialog.values)

FinishNewUnlimited(v) == Asked("add one") /\ Create /\ Carry({v})

FinishRefill ==
  Asked("refill values") /\ Carry(dialog.values) /\ UNCHANGED <<rows, stock, fresh>>

FinishSwitch == Asked("switch values") /\ Purge /\ Carry(dialog.values)

SwitchToUnlimited(v) == Asked("switch one") /\ Purge /\ Carry({v})

AsUnlimited == dialog.step \in {"add one", "switch one"}

\* add_values_to_item, a transaction for each value.
AddValue(v) ==
  /\ job # None /\ v \in job
  /\ job' = job \ {v}
  /\ IF Called(dialog.name, Goods) = {} THEN UNCHANGED stock
     ELSE \E g \in Called(dialog.name, Goods) : Insert(g, v, AsUnlimited)
  /\ UNCHANGED <<rows, product, aside, dialog, begun>>

\* The result is shown, the update of the texts is refused, the FSM cleared.
Close ==
  /\ job = {}
  /\ job' = None /\ dialog' = NoDialog
  /\ UNCHANGED <<shelf, aside, begun>>

------------------------------------------------------------------------------
CatalogueRestart ==
  /\ saves # {} \/ job # None \/ sending # None
  /\ saves' = {} /\ job' = None /\ sending' = None
  /\ UNCHANGED <<shelf, reviews, talk, shown, disk, dialog, begun>>

WebPanel ==
  \/ \E n \in Names, up \in Cats \union {None}, f \in Files \union {None} :
       LET want == [name |-> n, up |-> up, image |-> f]
       IN \/ \E c \in Cats : SaveCategory(c, want)
          \/ \E g \in Goods : SaveProduct(g, want)
  \/ \E x \in Ids : Delete(x)
  \/ \E s \in saves : Commit(s) \/ Fail(s) \/ Tidy(s)
  \/ \E g \in Goods, v \in Values, infinite \in BOOLEAN : WebStock(g, v, infinite)

Bot ==
  \/ \E step \in Openings : Open(step)
  \/ \E n \in Names : \/ NameToAdd(n) \/ NameToRefill(n) \/ NameToUpdate(n) \/ PickCategory(n)
                      \/ NewCategory(n) \/ DeleteCategory(n) \/ NameToRename(n) \/ RenameCategory(n)
  \/ \E g \in Goods : DeleteProduct(g)
  \/ \E yes \in BOOLEAN : Kind(yes) \/ Switch(yes)
  \/ \E v \in Values : TypeValue(v) \/ FinishNewUnlimited(v) \/ SwitchToUnlimited(v) \/ AddValue(v)
  \/ Menu \/ FinishNew \/ FinishRefill \/ FinishSwitch \/ Close

Customer ==
  \/ \E i \in Items, v \in stock : Sell(i, v)
  \/ /\ \/ Reviewing /\ UNCHANGED begun
        \/ \E i \in Items, origin \in {"p", "o"} : StartReview(i, origin) /\ Begin
        \/ \E i \in Items : DeleteReview(i) /\ Begin
     /\ UNCHANGED <<shelf, disk, saves, dialog, job>>

CatalogueNext == WebPanel \/ Bot \/ Customer \/ CatalogueRestart \/ \E v \in stock : DeleteValue(v)

CatalogueSpec == CatalogueInit /\ [][CatalogueNext]_catalogueVars

------------------------------------------------------------------------------
Unit == [item : Goods, value : Values, infinite : BOOLEAN]

Save == [row : Ids, seen : Row \union {None}, want : Row \union {None}, done : BOOLEAN]

Dialog == [ step     : Openings \union Collecting \union
                         {"none", "category", "kind", "add one", "switch", "switch one", "new name"},
            name     : Names \union {None},
            cat      : Names \union {None},
            infinite : BOOLEAN,
            values   : SUBSET Values ]

\* The foreign keys and the unique names.
References ==
  /\ \A x \in Ids : Exists(x) => Accepted(x, rows[x])
  /\ \A v \in stock : Exists(v.item)
  /\ \A i \in Items : /\ product[i] # None => Exists(product[i])
                      /\ reviews[i] # None => Exists(reviews[i].product)

CatalogueTypeOK ==
  /\ rows \in [Ids -> Row \union {None}] /\ product \in [Items -> Goods \union {None}]
  /\ stock \subseteq Unit /\ References
  /\ files \subseteq Files /\ fresh \subseteq Ids \union Files
  /\ saves \subseteq Save
  /\ dialog \in Dialog /\ job \in (SUBSET Values) \union {None}
  /\ dialog.step \in {"category", "kind", "add values", "add one"} => dialog.name \in Names
  /\ begun \in 0..MaxBegun
  /\ ReviewsTypeOK

\* A product or category never names an image file that is gone: not while
\* two operators upload, remove and delete side by side, not when a commit
\* fails or the process dies between the two writes (web/admin.py).
ImageThere == \A x \in Ids : Exists(x) /\ rows[x].image # None => rows[x].image \in files
==============================================================================
