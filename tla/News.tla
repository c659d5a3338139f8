--------------------------------- MODULE News ---------------------------------
(***************************************************************************)
(* The news: the rows and the service that writes them, the form of the    *)
(* panel (what it was filled with, what it sends, what it announces) and   *)
(* the other calls on the same rows: publish, archive, draft and delete of *)
(* the drawer, of another administrator or of the API.                     *)
(***************************************************************************)
EXTENDS Integers, FiniteSets

CONSTANTS
    News,
    Titles,       \* a title stands for the text under it as well
    Empty,        \* the empty title, and the empty slug
    Slugify,      \* the slug of a title: letters that are not Latin are dropped
    Now,          \* new Date()
    Zone,         \* the browser's offset from UTC
    MaxSaves,     \* bound: requests of the form
    MaxCalls,     \* bound: other calls
    None,         \* no date
    Nil           \* no row, no item

Statuses == {"DRAFT", "PUBLISHED", "ARCHIVED"}
Slugs == {Slugify[t] : t \in Titles}
Dates == (Now - MaxSaves * Zone)..Now
Rows == [status : Statuses, pub : BOOLEAN, at : Dates \cup {None}, title : Titles, slug : Slugs]
New == "__new__"

(* What the constants have to be.                                          *)
NewsAssumption ==
    /\ Now \in Int /\ Zone \in Nat /\ MaxSaves \in Nat /\ MaxCalls \in Nat
    /\ Empty \in Titles /\ None \notin Dates /\ New \notin News /\ Nil \notin News \cup {New} \cup Rows
    /\ DOMAIN Slugify = Titles /\ Slugify[Empty] = Empty

VARIABLES
    row,          \* row[n]: the row or Nil
    cache,        \* cache[n]: itemQ.data: the row the panel last got, or Nil
    form,         \* the dialog: whether it is open, on what, and its fields
    put,          \* the form's request
    call,         \* another call under way
    saves, calls,
    crossed       \* history: a write came between another's find and update

vars == <<row, cache, form, put, call, saves, calls, crossed>>

Request(pc, id, act) == [pc |-> pc, id |-> id, act |-> act, status |-> "DRAFT", title |-> Empty, slug |-> Empty,
                         at |-> None, of |-> Nil, dated |-> FALSE, sure |-> TRUE]
NoPut == Request("idle", Nil, "save")
NoCall == [pc |-> "idle", id |-> Nil, act |-> "draft", at |-> None]

(* Values taken from an item; "of" is the item they are of, "dated" is     *)
(* history: the date was set by hand.                                      *)
Values(n, r) == [title |-> IF r = Nil THEN Empty ELSE r.title, slug |-> IF r = Nil THEN Empty ELSE r.slug,
                 at |-> IF r = Nil THEN None ELSE r.at, of |-> n, dated |-> FALSE]

Init ==
    /\ row \in [News -> {Nil} \cup [status : {"DRAFT", "PUBLISHED"}, pub : BOOLEAN, at : {None, Now},
                                    title : Titles \ {Empty}, slug : Slugs]]
    /\ \A n \in News : row[n] # Nil => /\ row[n].pub = (row[n].status = "PUBLISHED")
                                       /\ row[n].pub = (row[n].at # None)
                                       /\ row[n].slug = Slugify[row[n].title]
    /\ \A n, o \in News : n # o /\ row[n] # Nil /\ row[o] # Nil => row[n].slug # row[o].slug
    /\ cache = [n \in News |-> Nil]
    /\ form = [open |-> FALSE, id |-> Nil, ready |-> FALSE, v |-> Values(Nil, Nil)]
    /\ put = NoPut /\ call = NoCall /\ saves = 0 /\ calls = 0 /\ crossed = FALSE

(* MUTANT of publishFields: the first date is the date of every publishing.*)
publishFieldsNow(status, at) ==
    [status |-> status, pub |-> status = "PUBLISHED", at |-> IF status = "PUBLISHED" THEN Now ELSE None]

publishFields(status, at) ==
    [status |-> status, pub |-> status = "PUBLISHED", at |-> IF status = "PUBLISHED" /\ at = None THEN Now ELSE at]

(* MUTANT of SlugFree: the column is not unique.                           *)
SlugFreeAlways(n, slug) == TRUE

SlugFree(n, slug) == \A o \in News \ {n} : row[o] # Nil => row[o].slug # slug

(* Whether somebody else is between find and update of the same row.       *)
Crosses(n, other) == other.pc = "write" /\ other.id = n
-----------------------------------------------------------------------------
(* The dialog opens; what was got before fills it at once, else the fields *)
(* keep what they had until the item comes.                                *)
Open(id) ==
    /\ ~form.open
    /\ id = New \/ (id # New /\ \E n \in News : n = id /\ row[n] # Nil)
    /\ form' = [open |-> TRUE, id |-> id, ready |-> id = New \/ cache[id] # Nil,
                v |-> IF id = New THEN Values(New, Nil) ELSE IF cache[id] # Nil THEN Values(id, cache[id]) ELSE form.v]
    /\ UNCHANGED <<row, cache, put, call, saves, calls, crossed>>

(* MUTANT of Got: every answer fills the fields.                           *)
GotAgain(n) ==
    /\ row[n] # Nil
    /\ cache' = [cache EXCEPT ![n] = row[n]]
    /\ form' = IF form.open /\ form.id # New THEN [form EXCEPT !.ready = TRUE, !.v = Values(n, row[n])] ELSE form
    /\ UNCHANGED <<row, put, call, saves, calls, crossed>>

(* An answer of getAdminNewsById: it fills the fields only once.           *)
Got(n) ==
    /\ row[n] # Nil
    /\ cache' = [cache EXCEPT ![n] = row[n]]
    /\ form' = IF form.open /\ form.id = n /\ ~form.ready
               THEN [open |-> TRUE, id |-> n, ready |-> TRUE, v |-> Values(n, row[n])] ELSE form
    /\ UNCHANGED <<row, put, call, saves, calls, crossed>>

(* The item could not be got: the fields are emptied, and can be saved.    *)
GotNone(n) ==
    /\ form.open /\ form.id = n /\ ~form.ready
    /\ form' = [open |-> TRUE, id |-> n, ready |-> TRUE, v |-> Values(Nil, Nil)]
    /\ UNCHANGED <<row, cache, put, call, saves, calls, crossed>>

(* The first slug that is not empty stays.                                 *)
TypeTitle(t) ==
    /\ form.open /\ form.ready
    /\ form' = [form EXCEPT !.v = [title |-> t, slug |-> IF @.slug = Empty THEN Slugify[t] ELSE @.slug,
                                   at |-> @.at, of |-> @.of, dated |-> @.dated]]
    /\ UNCHANGED <<row, cache, put, call, saves, calls, crossed>>

SetDate ==
    /\ form.open /\ form.ready
    /\ form' = [form EXCEPT !.v = [title |-> @.title, slug |-> @.slug, at |-> Now, of |-> @.of, dated |-> TRUE]]
    /\ UNCHANGED <<row, cache, put, call, saves, calls, crossed>>

(* The fields are kept.                                                    *)
Closed == [open |-> FALSE, id |-> Nil, ready |-> FALSE, v |-> form.v]

(* Escape closes the dialog even while a request is under way.             *)
Close ==
    /\ form.open /\ form' = Closed
    /\ UNCHANGED <<row, cache, put, call, saves, calls, crossed>>

(* formValuesToPayload: the date field holds the date in UTC and is read   *)
(* as local time.  "sure" is history: the item had been got.               *)
Payload(status) ==
    [pc |-> IF form.id = New THEN "write" ELSE "find", id |-> form.id, act |-> "save", status |-> status,
     title |-> form.v.title,
     slug |-> IF form.v.slug # Empty THEN form.v.slug ELSE Slugify[form.v.title],
     at |-> IF form.v.at = None THEN None ELSE IF form.v.dated THEN form.v.at ELSE form.v.at - Zone,
     of |-> form.v.of, dated |-> form.v.dated, sure |-> form.ready /\ form.v.of # Nil]

(* Save as draft, publish, archive; only the first two wait for the item.  *)
(* With no title nothing is sent, and success is announced all the same.   *)
Save(status) ==
    /\ form.open /\ put.pc = "idle" /\ saves < MaxSaves
    /\ IF status = "ARCHIVED" THEN form.id # New ELSE form.ready
    /\ saves' = saves + 1
    /\ put' = IF form.v.title = Empty THEN [Payload(status) EXCEPT !.pc = "said"] ELSE Payload(status)
    /\ UNCHANGED <<row, cache, form, call, calls, crossed>>

DeleteItem ==
    /\ form.open /\ form.id # New /\ put.pc = "idle" /\ saves < MaxSaves /\ saves' = saves + 1
    /\ put' = Request("find", form.id, "delete")
    /\ UNCHANGED <<row, cache, form, call, calls, crossed>>

PutFind ==
    /\ put.pc = "find"
    /\ IF row[put.id] = Nil THEN put' = NoPut
       ELSE put' = [put EXCEPT !.pc = "write", !.at = IF @ # None THEN @ ELSE row[put.id].at]
    /\ UNCHANGED <<row, cache, form, call, saves, calls, crossed>>

(* MUTANT of Data: an update leaves the flag as it was.                    *)
DataFlag(p) ==
    [status |-> p.status, pub |-> p.id # New /\ row[p.id].pub, at |-> publishFields(p.status, p.at).at,
     title |-> p.title, slug |-> p.slug]

(* What createNews and updateNews write.                                   *)
Data(p) ==
    LET f == publishFields(p.status, p.at) IN
    [status |-> f.status, pub |-> f.pub, at |-> f.at, title |-> p.title, slug |-> p.slug]

(* Of a new row the database gives the id.  A row that is gone and a slug  *)
(* another row has are errors; the form stays open.                        *)
PutWrite(n) ==
    /\ put.pc = "write"
    /\ IF put.id = New THEN row[n] = Nil ELSE n = put.id
    /\ \/ /\ put.act = "delete" /\ row[n] # Nil
          /\ row' = [row EXCEPT ![n] = Nil] /\ put' = [put EXCEPT !.pc = "said"]
       \/ /\ put.act = "save" /\ (put.id = New \/ row[n] # Nil) /\ SlugFree(n, put.slug)
          /\ row' = [row EXCEPT ![n] = Data(put)] /\ put' = [put EXCEPT !.pc = "said"]
       \/ /\ (put.id # New /\ row[n] = Nil) \/ (put.act = "save" /\ ~SlugFree(n, put.slug))
          /\ put' = NoPut /\ UNCHANGED row
    /\ crossed' = (crossed \/ (row' # row /\ Crosses(n, call)))
    /\ UNCHANGED <<cache, form, call, saves, calls>>

(* The announcement closes whatever dialog is open by now.                 *)
Said ==
    /\ put.pc = "said" /\ put' = NoPut /\ form' = Closed
    /\ UNCHANGED <<row, cache, call, saves, calls, crossed>>

(* The request or its answer is lost, or the activity log cannot be        *)
(* written: an error, whether the row was written or not.                  *)
PutFailed ==
    /\ put.pc # "idle" /\ put' = NoPut
    /\ UNCHANGED <<row, cache, form, call, saves, calls, crossed>>
-----------------------------------------------------------------------------
(* publish, archive, draft and delete of the other callers.                *)
Call(n, act) ==
    /\ call.pc = "idle" /\ calls < MaxCalls /\ calls' = calls + 1
    /\ call' = [pc |-> "find", id |-> n, act |-> act, at |-> None]
    /\ UNCHANGED <<row, cache, form, put, saves, crossed>>

CallFind ==
    /\ call.pc = "find"
    /\ call' = IF row[call.id] = Nil THEN NoCall
                ELSE [pc |-> "write", id |-> call.id, act |-> call.act, at |-> row[call.id].at]
    /\ UNCHANGED <<row, cache, form, put, saves, calls, crossed>>

(* setStatus writes status, flag and the date it has read; deleteNews      *)
(* leaves the date alone.                                                  *)
Set(n, act, at) ==
    LET f == publishFields(CASE act = "publish" -> "PUBLISHED"
                             [] act = "archive" -> "ARCHIVED"
                             [] OTHER -> "DRAFT", at) IN
    [status |-> f.status, pub |-> f.pub, at |-> IF act = "delete" THEN row[n].at ELSE f.at,
     title |-> row[n].title, slug |-> row[n].slug]

CallWrite ==
    /\ call.pc = "write" /\ call' = NoCall
    /\ row' = IF row[call.id] = Nil THEN row
              ELSE [row EXCEPT ![call.id] = IF call.act = "permanent" THEN Nil ELSE Set(call.id, call.act, call.at)]
    /\ crossed' = (crossed \/ Crosses(call.id, put))
    /\ UNCHANGED <<cache, form, put, saves, calls>>

Next ==
    \/ \E id \in News \cup {New} : Open(id)
    \/ \E n \in News : Got(n) \/ GotNone(n) \/ PutWrite(n)
    \/ \E t \in Titles : TypeTitle(t)
    \/ SetDate \/ Close \/ DeleteItem \/ PutFind \/ Said \/ PutFailed \/ CallFind \/ CallWrite
    \/ \E status \in Statuses : Save(status)
    \/ \E n \in News, act \in {"publish", "archive", "draft", "delete", "permanent"} : Call(n, act)

Spec == Init /\ [][Next]_vars
-----------------------------------------------------------------------------
TypeOK ==
    /\ row \in [News -> Rows \cup {Nil}] /\ cache \in [News -> Rows \cup {Nil}]
    /\ \A n, o \in News : n # o /\ row[n] # Nil /\ row[o] # Nil => row[n].slug # row[o].slug
    /\ saves \in 0..MaxSaves /\ calls \in 0..MaxCalls

(***************************************************************************)
(* The app lists the rows whose status or flag says published, ordered by  *)
(* date; five writers set the two and the date.  Whatever they do at once, *)
(* flag and status agree and a published row has a date.                   *)
(***************************************************************************)
FlagFollowsStatus ==
    \A n \in News : row[n] # Nil => /\ row[n].pub = (row[n].status = "PUBLISHED")
                                    /\ row[n].pub => row[n].at # None

(***************************************************************************)
(* The date of the first publication stays when a row is archived or made  *)
(* a draft, unless a write comes between another's find and update.        *)
(***************************************************************************)
DateStays ==
    [][\A n \in News : row[n] # Nil /\ row'[n] # Nil /\ row[n].at # None /\ ~crossed' => row'[n].at # None]_vars

(***************************************************************************)
(* What the form writes to a row was taken from that row, whatever was     *)
(* opened, closed, got or announced in between, as long as nothing is      *)
(* sent before the item has been got: Archive is not disabled until then.  *)
(***************************************************************************)
WrittenFromItsItem == put.pc \in {"find", "write"} /\ put.act = "save" /\ put.sure => put.of = put.id
=============================================================================
