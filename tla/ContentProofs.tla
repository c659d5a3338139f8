---------------------------- MODULE ContentProofs ----------------------------
(***************************************************************************)
(* Proofs about MCContent, for any constants that satisfy                  *)
(* ContentAssumption: any news, titles, filters, prices, customers,        *)
(* sockets, slots and bounds.  Each part is proved for itself, from an     *)
(* inductive invariant of its own; the last section puts them together.    *)
(***************************************************************************)
EXTENDS MCContent, Integers, Sequences, SequenceTheorems, FiniteSetTheorems, TLAPS

-----------------------------------------------------------------------------
(***************************************************************************)
(* The rows of the news and the form of the panel: News.                   *)
(***************************************************************************)
NewsTimes == Int \cup {None}
NewsIds == News \cup {NewsRows!New, Nil}
NewsWritten == [status : NewsRows!Statuses, pub : BOOLEAN, at : NewsTimes, title : Titles, slug : NewsRows!Slugs]
NewsFields == [title : Titles, slug : NewsRows!Slugs, at : NewsTimes, of : NewsIds, dated : BOOLEAN]
NewsDialogs == [open : BOOLEAN, id : NewsIds, ready : BOOLEAN, v : NewsFields]
NewsPuts == [pc : {"idle", "find", "write", "said"}, id : NewsIds, act : {"save", "delete"},
             status : NewsRows!Statuses, title : Titles, slug : NewsRows!Slugs, at : NewsTimes,
             of : NewsIds, dated : BOOLEAN, sure : BOOLEAN]
NewsActs == {"publish", "archive", "draft", "delete", "permanent"}
NewsCalls == [pc : {"idle", "find", "write"}, id : NewsIds, act : NewsActs, at : NewsTimes]

(* Rows, the dialog, and requests of items there are or were.              *)
NewsRowsAre == row \in [News -> NewsWritten \cup {Nil}] /\ cache \in [News -> NewsWritten \cup {Nil}]
NewsDialogIs == form \in NewsDialogs /\ (form.open => form.id \in News \cup {NewsRows!New})
NewsPutIs ==
    /\ put \in NewsPuts
    /\ put.pc = "find" => put.id \in News
    /\ put.pc = "write" => put.id \in News \cup {NewsRows!New}
NewsCallIs == call \in NewsCalls /\ (call.pc # "idle" => call.id \in News)
NewsCounted == saves \in 0..MaxSaves /\ calls \in 0..MaxCalls
NewsShape == NewsRowsAre /\ NewsDialogIs /\ NewsPutIs /\ NewsCallIs /\ NewsCounted

(* Each request takes a date back by the offset once at most.              *)
NewsReach == Now - saves * Zone
NewsLate(x) == x = None \/ (NewsReach <= x /\ x <= Now)
NewsAllLate ==
    /\ \A n \in News : (row[n] # Nil => NewsLate(row[n].at)) /\ (cache[n] # Nil => NewsLate(cache[n].at))
    /\ NewsLate(form.v.at) /\ NewsLate(put.at) /\ NewsLate(call.at)

NewsOneEach == \A n, o \in News : n # o /\ row[n] # Nil /\ row[o] # Nil => row[n].slug # row[o].slug

(* The fields are those of the item the dialog is on.                      *)
NewsOwnFields ==
    /\ form.open /\ form.ready /\ form.v.of # Nil => form.v.of = form.id
    /\ NewsRows!WrittenFromItsItem

(* A write that nothing came before knows the date that is there.          *)
NewsDated(p) == p.pc = "write" /\ p.id \in News /\ row[p.id] # Nil /\ row[p.id].at # None => p.at # None
NewsDatesKnown == ~crossed => (put.act = "save" => NewsDated(put)) /\ NewsDated(call)

NewsInv == NewsShape /\ NewsAllLate /\ NewsOneEach /\ NewsRows!FlagFollowsStatus /\ NewsOwnFields /\ NewsDatesKnown
-----------------------------------------------------------------------------
LEMMA NewsSlugOf ==
    ASSUME NewsRows!NewsAssumption
    PROVE  Empty \in Titles /\ Empty \in NewsRows!Slugs /\ \A t \in Titles : Slugify[t] \in NewsRows!Slugs
BY Zenon DEF NewsRows!NewsAssumption, NewsRows!Slugs

LEMMA NewsReachIs ==
    ASSUME NewsRows!NewsAssumption, NewsCounted
    PROVE  NewsReach \in Int /\ Now - MaxSaves * Zone <= NewsReach /\ NewsReach <= Now
<1>1. saves \in Nat /\ saves <= MaxSaves /\ Zone \in Nat /\ MaxSaves \in Nat /\ Now \in Int
  BY SMT DEF NewsRows!NewsAssumption, NewsCounted
<1>2. saves * Zone \in Nat /\ saves * Zone <= MaxSaves * Zone /\ MaxSaves * Zone \in Nat
  BY <1>1, Z3
<1>3. QED
  BY <1>1, <1>2, SMT DEF NewsReach

LEMMA NewsReachMoves ==
    ASSUME NewsRows!NewsAssumption, NewsCounted, saves' = saves \/ saves' = saves + 1
    PROVE  NewsReach' \in Int /\ NewsReach' <= NewsReach /\ (saves' = saves + 1 => NewsReach' = NewsReach - Zone)
<1>1. saves \in Nat /\ Zone \in Nat /\ Now \in Int
  BY SMT DEF NewsRows!NewsAssumption, NewsCounted
<1>2. saves * Zone \in Nat /\ (saves + 1) * Zone = saves * Zone + Zone
  BY <1>1, Z3
<1>3. PICK a \in Nat : a = saves * Zone
  BY <1>2
<1>4. NewsReach = Now - a
  BY <1>3 DEF NewsReach
<1>5. CASE saves' = saves
  <2>1. NewsReach' = NewsReach
    BY <1>5 DEF NewsReach
  <2>2. QED
    BY <1>1, <1>3, <1>4, <1>5, <2>1, SMT
<1>6. CASE saves' = saves + 1
  <2>1. NewsReach' = Now - (a + Zone)
    BY <1>2, <1>3, <1>6 DEF NewsReach
  <2>2. QED
    BY <1>1, <1>3, <1>4, <2>1, SMT
<1>7. QED
  BY <1>5, <1>6

LEMMA NewsDatesAre ==
    ASSUME NewsRows!NewsAssumption,
           NewsCounted
    PROVE  Now \in NewsRows!Dates /\ Now # None /\ \A x \in NewsTimes : NewsLate(x) => x \in NewsRows!Dates \cup {None}
<1>1. NewsReach \in Int /\ Now - MaxSaves * Zone <= NewsReach /\ NewsReach <= Now /\ Now \in Int /\
        Now - MaxSaves * Zone \in Int
  <2>1. Now \in Int /\ MaxSaves \in Nat /\ Zone \in Nat
    BY DEF NewsRows!NewsAssumption
  <2>2. MaxSaves * Zone \in Nat
    BY <2>1, Z3
  <2>3. QED
    BY <2>1, <2>2, NewsReachIs, SMT
<1>2. PICK low \in Int : low = Now - MaxSaves * Zone
  BY <1>1
<1>3. NewsRows!Dates = low..Now
  BY <1>2 DEF NewsRows!Dates
<1>4. Now \in NewsRows!Dates
  BY <1>1, <1>2, <1>3, SMT
<1>5. ASSUME NEW x \in NewsTimes, NewsLate(x) PROVE x \in NewsRows!Dates \cup {None}
  BY <1>1, <1>2, <1>3, <1>5, SMT DEF NewsLate, NewsTimes
<1>6. QED
  BY <1>4, <1>5, Zenon DEF NewsRows!NewsAssumption

LEMMA NewsDataIs ==
    ASSUME NewsRows!NewsAssumption,
           NewsPutIs PROVE NewsRows!Data(put) \in NewsWritten /\ NewsRows!Data(put).slug = put.slug
<1>1. /\ put.status \in NewsRows!Statuses /\ put.at \in NewsTimes /\ put.title \in Titles /\
           put.slug \in NewsRows!Slugs /\ Now \in NewsTimes
      /\ (put.status = "PUBLISHED") \in BOOLEAN
  BY SMT DEF NewsPutIs, NewsPuts, NewsRows!NewsAssumption, NewsTimes
<1>2. (IF put.status = "PUBLISHED" /\ put.at = None THEN Now ELSE put.at) \in NewsTimes
  BY <1>1
<1>3. QED
  BY <1>1, <1>2, Zenon DEF NewsRows!Data, NewsRows!publishFields, NewsWritten

LEMMA NewsSetIs ==
    ASSUME NewsRows!NewsAssumption, NewsRowsAre, NEW n \in News, row[n] # Nil, NEW act, NEW date \in NewsTimes
    PROVE  NewsRows!Set(n, act, date) \in NewsWritten /\ NewsRows!Set(n, act, date).slug = row[n].slug
<1> DEFINE s == CASE act = "publish" -> "PUBLISHED" [] act = "archive" -> "ARCHIVED" [] OTHER -> "DRAFT"
<1>1. s \in NewsRows!Statuses
  BY SMT DEF NewsRows!Statuses
<1>2. row[n].at \in NewsTimes /\ row[n].title \in Titles /\ row[n].slug \in NewsRows!Slugs /\ Now \in NewsTimes
  BY SMT DEF NewsRowsAre, NewsWritten, NewsRows!NewsAssumption, NewsTimes
<1>3. (s = "PUBLISHED") \in BOOLEAN
  OBVIOUS
<1>4. NewsRows!Set(n, act, date) = [status |-> s, pub |-> s = "PUBLISHED",
                         at |-> IF act = "delete" THEN row[n].at ELSE IF s = "PUBLISHED" /\
                           date = None THEN Now ELSE date,
                         title |-> row[n].title, slug |-> row[n].slug]
  BY Zenon DEF NewsRows!Set, NewsRows!publishFields
<1> HIDE DEF s
<1>5. PICK x \in NewsTimes :
        x = IF act = "delete" THEN row[n].at ELSE IF s = "PUBLISHED" /\ date = None THEN Now ELSE date
  BY <1>2
<1>6. PICK b \in BOOLEAN : b = (s = "PUBLISHED")
  BY <1>3
<1>7. NewsRows!Set(n, act, date) = [status |-> s, pub |-> b, at |-> x, title |-> row[n].title, slug |-> row[n].slug]
  BY <1>4, <1>5, <1>6, Zenon
<1>8. [status |-> s, pub |-> b, at |-> x, title |-> row[n].title, slug |-> row[n].slug] \in NewsWritten
  BY <1>1, <1>2, Zenon DEF NewsWritten
<1>9. QED
  BY <1>7, <1>8

LEMMA NewsRowsStep == ASSUME NewsRows!NewsAssumption, NewsShape, [NewsRows!Next]_(NewsRows!vars) PROVE NewsRowsAre'
<1> USE DEF NewsShape, NewsRowsAre
<1>1. ASSUME NEW n \in News, NewsRows!Got(n) PROVE NewsRowsAre'
  BY <1>1, SMT DEF NewsRows!Got
<1>2. ASSUME NEW n \in News, NewsRows!PutWrite(n) PROVE NewsRowsAre'
  <2>1. /\ row' = row \/ row' = [row EXCEPT ![n] = Nil] \/ row' = [row EXCEPT ![n] = NewsRows!Data(put)]
        /\ cache' = cache
    BY <1>2, Zenon DEF NewsRows!PutWrite
  <2>2. NewsRows!Data(put) \in NewsWritten
    BY NewsDataIs
  <2> HIDE DEF NewsWritten
  <2>3. QED
    BY <2>1, <2>2, SMT
<1>3. CASE NewsRows!CallWrite
  <2>1. /\ cache' = cache
        /\ \/ row' = row
           \/ row' = [row EXCEPT ![call.id] = Nil]
           \/ row[call.id] # Nil /\ row' = [row EXCEPT ![call.id] = NewsRows!Set(call.id, call.act, call.at)]
    BY <1>3, Zenon DEF NewsRows!CallWrite
  <2>2. call.id \in News /\ call.at \in NewsTimes
    BY <1>3, SMT DEF NewsRows!CallWrite, NewsCallIs, NewsCalls
  <2>3. row[call.id] # Nil => NewsRows!Set(call.id, call.act, call.at) \in NewsWritten
    BY <2>2, NewsSetIs
  <2> HIDE DEF NewsWritten
  <2>4. ASSUME NEW m \in {Nil} \cup NewsWritten, row' = [row EXCEPT ![call.id] = m] PROVE NewsRowsAre'
    BY <2>1, <2>2, <2>4, SMT
  <2>5. CASE row' = row
    BY <2>1, <2>5, Zenon
  <2>6. CASE row' = [row EXCEPT ![call.id] = Nil]
    <3>1. Nil \in {Nil} \cup NewsWritten
      OBVIOUS
    <3>2. QED
      BY <2>4, <2>6, <3>1
  <2>7. CASE row[call.id] # Nil /\ row' = [row EXCEPT ![call.id] = NewsRows!Set(call.id, call.act, call.at)]
    <3>1. NewsRows!Set(call.id, call.act, call.at) \in {Nil} \cup NewsWritten
      BY <2>3, <2>7
    <3>2. QED
      BY <2>4, <2>7, <3>1
  <2>8. QED
    BY <2>1, <2>5, <2>6, <2>7
<1>4. CASE UNCHANGED <<row, cache>>
  BY <1>4, Zenon
<1>5. QED
  BY <1>1, <1>2, <1>3, <1>4, Zenon DEF NewsRows!Next, NewsRows!Open, NewsRows!GotNone, NewsRows!TypeTitle,
       NewsRows!SetDate, NewsRows!Close, NewsRows!DeleteItem, NewsRows!PutFind, NewsRows!Said, NewsRows!PutFailed,
       NewsRows!CallFind, NewsRows!Save, NewsRows!Call, NewsRows!vars

LEMMA NewsValuesAre ==
    ASSUME NewsRows!NewsAssumption, NEW n \in NewsIds, NEW r \in NewsWritten \cup {Nil}
    PROVE  NewsRows!Values(n, r) \in NewsFields /\ NewsRows!Values(n, r).of = n
<1>1. Empty \in Titles /\ Empty \in NewsRows!Slugs
  BY NewsSlugOf
<1>2. CASE r = Nil
  BY <1>1, <1>2, Zenon DEF NewsRows!Values, NewsFields, NewsTimes
<1>3. CASE r # Nil
  <2>1. r \in NewsWritten
    BY <1>3
  <2>2. r.title \in Titles /\ r.slug \in NewsRows!Slugs /\ r.at \in NewsTimes
    BY <2>1 DEF NewsWritten
  <2>3. QED
    BY <1>3, <2>2, Zenon DEF NewsRows!Values, NewsFields
<1>4. QED
  BY <1>2, <1>3

LEMMA NewsDialogStep == ASSUME NewsRows!NewsAssumption, NewsShape, [NewsRows!Next]_(NewsRows!vars) PROVE NewsDialogIs'
<1> USE DEF NewsShape, NewsDialogIs
<1>0. form.open \in BOOLEAN /\ form.v \in NewsFields /\ form.id \in NewsIds /\ form.ready \in BOOLEAN /\
        form.v.slug \in NewsRows!Slugs
      /\ form.v.of \in NewsIds /\ form.v.title \in Titles /\ form.v.at \in NewsTimes /\ form.v.dated \in BOOLEAN
  BY Zenon DEF NewsDialogs, NewsFields
<1>1. ASSUME NEW id \in News \cup {NewsRows!New}, NewsRows!Open(id) PROVE NewsDialogIs'
  <2>1. PICK v \in NewsFields : form' = [open |-> TRUE, id |-> id, ready |-> (id = NewsRows!New \/ cache[id] # Nil),
                                         v |-> v]
    <3> DEFINE v == IF id = NewsRows!New THEN NewsRows!Values(NewsRows!New, Nil)
                      ELSE IF cache[id] # Nil THEN NewsRows!Values(id, cache[id]) ELSE form.v
    <3>1. NewsRows!Values(NewsRows!New, Nil) \in NewsFields
      BY NewsValuesAre DEF NewsIds
    <3>2. id # NewsRows!New => cache[id] \in NewsWritten \cup {Nil} /\ id \in News
      BY Zenon DEF NewsRowsAre
    <3>3. id # NewsRows!New => NewsRows!Values(id, cache[id]) \in NewsFields
      BY <3>2, NewsValuesAre DEF NewsIds
    <3>4. v \in NewsFields
      BY <1>0, <3>1, <3>3
    <3>5. form' = [open |-> TRUE, id |-> id, ready |-> (id = NewsRows!New \/ cache[id] # Nil), v |-> v]
      BY <1>1, Zenon DEF NewsRows!Open
    <3>6. QED
      BY <3>4, <3>5
  <2>2. (id = NewsRows!New \/ cache[id] # Nil) \in BOOLEAN /\ id \in NewsIds
    BY DEF NewsIds
  <2>3. form' \in NewsDialogs
    BY <2>1, <2>2, Zenon DEF NewsDialogs
  <2>4. QED
    BY <2>1, <2>3, Zenon
<1>2. ASSUME NEW n \in News, NewsRows!Got(n) \/ NewsRows!GotNone(n) PROVE NewsDialogIs'
  <2>1. row[n] \in NewsWritten \cup {Nil} /\ n \in NewsIds
    BY Zenon DEF NewsRowsAre, NewsIds
  <2>2. NewsRows!Values(n, row[n]) \in NewsFields /\ NewsRows!Values(Nil, Nil) \in NewsFields
    BY <2>1, NewsValuesAre DEF NewsIds
  <2>3. form' = form \/ \E v \in NewsFields : form' = [open |-> TRUE, id |-> n, ready |-> TRUE, v |-> v]
    BY <1>2, <2>2, Zenon DEF NewsRows!Got, NewsRows!GotNone
  <2>4. ASSUME NEW v \in NewsFields, form' = [open |-> TRUE, id |-> n, ready |-> TRUE, v |-> v] PROVE NewsDialogIs'
    BY <2>1, <2>4, Zenon DEF NewsDialogs
  <2>5. QED
    BY <2>3, <2>4, Zenon
<1>3. ASSUME NEW v \in NewsFields, form' = [form EXCEPT !.v = v] PROVE NewsDialogIs'
  BY <1>3, SMT DEF NewsDialogs
<1>4. ASSUME NEW t \in Titles, NewsRows!TypeTitle(t) PROVE NewsDialogIs'
  <2> DEFINE v == [title |-> t, slug |-> IF form.v.slug = Empty THEN Slugify[t] ELSE form.v.slug,
                   at |-> form.v.at, of |-> form.v.of, dated |-> form.v.dated]
  <2>1. (IF form.v.slug = Empty THEN Slugify[t] ELSE form.v.slug) \in NewsRows!Slugs
    BY <1>0, NewsSlugOf
  <2>2. v \in NewsFields
    BY <1>0, <2>1, Zenon DEF NewsFields
  <2>3. form' = [form EXCEPT !.v = v]
    BY <1>4, Zenon DEF NewsRows!TypeTitle
  <2>4. QED
    BY <1>3, <2>2, <2>3
<1>5. CASE NewsRows!SetDate
  <2> DEFINE v == [title |-> form.v.title, slug |-> form.v.slug, at |-> Now, of |-> form.v.of, dated |-> TRUE]
  <2>1. Now \in NewsTimes
    BY DEF NewsRows!NewsAssumption, NewsTimes
  <2>2. v \in NewsFields
    BY <1>0, <2>1, Zenon DEF NewsFields
  <2>3. form' = [form EXCEPT !.v = v]
    BY <1>5, Zenon DEF NewsRows!SetDate
  <2>4. QED
    BY <1>3, <2>2, <2>3
<1>6. CASE NewsRows!Close \/ NewsRows!Said
  <2>1. form' = [open |-> FALSE, id |-> Nil, ready |-> FALSE, v |-> form.v] /\ Nil \in NewsIds
    BY <1>6, Zenon DEF NewsRows!Close, NewsRows!Said, NewsRows!Closed, NewsIds
  <2>2. QED
    BY <1>0, <2>1, Zenon DEF NewsDialogs
<1>7. CASE UNCHANGED form
  BY <1>7, Zenon
<1>8. QED
  BY <1>1, <1>2, <1>4, <1>5, <1>6, <1>7, Zenon DEF NewsRows!Next, NewsRows!DeleteItem, NewsRows!PutFind,
       NewsRows!PutFailed, NewsRows!PutWrite, NewsRows!CallFind, NewsRows!CallWrite, NewsRows!Save, NewsRows!Call,
       NewsRows!vars

LEMMA NewsNoPutIs ==
    ASSUME NewsRows!NewsAssumption, NEW pc \in {"idle", "find", "write", "said"}, NEW id \in NewsIds,
           NEW act \in {"save", "delete"}
    PROVE  /\ NewsRows!Request(pc, id, act) \in NewsPuts /\ NewsRows!Request(pc, id, act).pc = pc
           /\ NewsRows!Request(pc, id, act).id = id /\ NewsRows!Request(pc, id, act).act = act
<1>1. Empty \in Titles /\ Empty \in NewsRows!Slugs /\ None \in NewsTimes /\ Nil \in NewsIds /\
        "DRAFT" \in NewsRows!Statuses
  BY NewsSlugOf, Zenon DEF NewsTimes, NewsIds, NewsRows!Statuses
<1>2. QED
  BY <1>1, Zenon DEF NewsRows!Request, NewsPuts

LEMMA NewsPayloadIs ==
    ASSUME NewsRows!NewsAssumption, NewsDialogIs, NEW s \in NewsRows!Statuses
    PROVE  /\ NewsRows!Payload(s) \in NewsPuts /\
              NewsRows!Payload(s).pc = (IF form.id = NewsRows!New THEN "write" ELSE "find") /\
              NewsRows!Payload(s).id = form.id
           /\ NewsRows!Payload(s).act = "save" /\ NewsRows!Payload(s).of = form.v.of /\
                NewsRows!Payload(s).sure = (form.ready /\ form.v.of # Nil)
<1>1. /\ form.id \in NewsIds /\ form.v.title \in Titles /\ form.v.slug \in NewsRows!Slugs /\ form.v.at \in NewsTimes /\
           form.v.of \in NewsIds
      /\ form.v.dated \in BOOLEAN /\ form.ready \in BOOLEAN
  BY Zenon DEF NewsDialogIs, NewsDialogs, NewsFields
<1>2. PICK date \in NewsTimes : date = IF form.v.at = None THEN None ELSE IF form.v.dated THEN form.v.at
             ELSE form.v.at - Zone
  <2>1. form.v.at # None => form.v.at - Zone \in Int
    BY <1>1, SMT DEF NewsRows!NewsAssumption, NewsTimes
  <2>2. QED
    BY <1>1, <2>1 DEF NewsTimes
<1>3. PICK slug \in NewsRows!Slugs : slug = IF form.v.slug # Empty THEN form.v.slug ELSE Slugify[form.v.title]
  BY <1>1, NewsSlugOf
<1>4. PICK sure \in BOOLEAN : sure = (form.ready /\ form.v.of # Nil)
  BY <1>1
<1>5. PICK pc \in {"write", "find"} : pc = IF form.id = NewsRows!New THEN "write" ELSE "find"
  OBVIOUS
<1>6. NewsRows!Payload(s) = [pc |-> pc, id |-> form.id, act |-> "save", status |-> s, title |-> form.v.title,
                             slug |-> slug, at |-> date,
                    of |-> form.v.of, dated |-> form.v.dated, sure |-> sure]
  BY <1>2, <1>3, <1>4, <1>5, Zenon DEF NewsRows!Payload
<1>7. NewsRows!Payload(s) \in NewsPuts
  <2>1. pc \in {"idle", "find", "write", "said"} /\ "save" \in {"save", "delete"}
    BY <1>5
  <2>2. [pc |-> pc, id |-> form.id, act |-> "save", status |-> s, title |-> form.v.title, slug |-> slug, at |-> date,
         of |-> form.v.of, dated |-> form.v.dated, sure |-> sure] \in NewsPuts
    BY <1>1, <2>1, Zenon DEF NewsPuts
  <2>3. QED
    BY <1>6, <2>2
<1>8. NewsRows!Payload(s).pc = pc /\ NewsRows!Payload(s).id = form.id /\ NewsRows!Payload(s).act = "save" /\
        NewsRows!Payload(s).of = form.v.of /\ NewsRows!Payload(s).sure = sure
  BY <1>6
<1>9. QED
  BY <1>4, <1>5, <1>7, <1>8

LEMMA NewsPutStep == ASSUME NewsRows!NewsAssumption, NewsShape, [NewsRows!Next]_(NewsRows!vars) PROVE NewsPutIs'
<1> USE DEF NewsShape, NewsPutIs
<1>0. Nil \in NewsIds /\ NewsRows!NoPut \in NewsPuts /\ NewsRows!NoPut.pc = "idle"
  <2>1. Nil \in NewsIds
    BY DEF NewsIds
  <2>2. QED
    BY <2>1, NewsNoPutIs DEF NewsRows!NoPut
<1>1. ASSUME NEW s \in NewsRows!Statuses, NewsRows!Save(s) PROVE NewsPutIs'
  <2>1. form.open /\ (put' = [NewsRows!Payload(s) EXCEPT !.pc = "said"] \/ put' = NewsRows!Payload(s))
    BY <1>1, Zenon DEF NewsRows!Save
  <2>2. form.id \in News \cup {NewsRows!New}
    BY <2>1, Zenon DEF NewsDialogIs
  <2>3. /\ NewsRows!Payload(s) \in NewsPuts /\
             NewsRows!Payload(s).pc = (IF form.id = NewsRows!New THEN "write" ELSE "find") /\
             NewsRows!Payload(s).id = form.id
    BY NewsPayloadIs
  <2>4. CASE put' = NewsRows!Payload(s)
    BY <2>2, <2>3, <2>4, SMT
  <2>5. CASE put' = [NewsRows!Payload(s) EXCEPT !.pc = "said"]
    <3>1. PICK p \in NewsPuts : p = NewsRows!Payload(s)
      BY <2>3
    <3>2. put' = [p EXCEPT !.pc = "said"]
      BY <2>5, <3>1
    <3>3. QED
      BY <3>2, SMT DEF NewsPuts
  <2>6. QED
    BY <2>1, <2>4, <2>5
<1>2. CASE NewsRows!DeleteItem
  <2>1. form.open /\ form.id # NewsRows!New /\ put' = NewsRows!Request("find", form.id, "delete")
    BY <1>2, Zenon DEF NewsRows!DeleteItem
  <2>2. form.id \in News /\ form.id \in NewsIds
    BY <2>1, Zenon DEF NewsDialogIs, NewsIds
  <2>3. "find" # "write"
    OBVIOUS
  <2>4. QED
    BY <2>1, <2>2, <2>3, NewsNoPutIs
<1>3. CASE NewsRows!PutFind
  <2>1. put.pc = "find" /\ put.id \in News /\ put \in NewsPuts
    BY <1>3, Zenon DEF NewsRows!PutFind
  <2>2. CASE put' = NewsRows!NoPut
    BY <1>0, <2>2, SMT
  <2>3. CASE row[put.id] # Nil /\ put' = [put EXCEPT !.pc = "write", !.at = IF @ # None THEN @ ELSE row[put.id].at]
    <3>1. row[put.id].at \in NewsTimes
      BY <2>1, <2>3, SMT DEF NewsRowsAre, NewsWritten
    <3>2. PICK x \in NewsTimes : x = IF put.at # None THEN put.at ELSE row[put.id].at
      BY <2>1, <3>1 DEF NewsPuts
    <3>3. put' = [put EXCEPT !.pc = "write", !.at = x]
      BY <2>3, <3>2, Zenon
    <3>4. PICK p : p = [put EXCEPT !.pc = "write"]
      OBVIOUS
    <3>5. p \in NewsPuts /\ p.pc = "write" /\ p.id = put.id
      BY <2>1, <3>4, SMT DEF NewsPuts
    <3>6. put' = [p EXCEPT !.at = x]
      BY <3>3, <3>4, Zenon
    <3>7. put' \in NewsPuts /\ put'.pc = "write" /\ put'.id = put.id
      BY <3>5, <3>6, SMT DEF NewsPuts
    <3>8. QED
      BY <2>1, <3>7, Zenon
  <2>4. QED
    BY <1>3, <2>2, <2>3, Zenon DEF NewsRows!PutFind
<1>4. CASE (\E n \in News : NewsRows!PutWrite(n)) \/ NewsRows!Said \/ NewsRows!PutFailed
  <2>1. put' = NewsRows!NoPut \/ put' = [put EXCEPT !.pc = "said"]
    BY <1>4, Zenon DEF NewsRows!PutWrite, NewsRows!Said, NewsRows!PutFailed
  <2>2. put' = NewsRows!NoPut => NewsPutIs'
    BY <1>0, SMT
  <2>3. put' = [put EXCEPT !.pc = "said"] => NewsPutIs'
    BY SMT DEF NewsPuts
  <2>4. QED
    BY <2>1, <2>2, <2>3
<1>5. CASE UNCHANGED put
  BY <1>5, Zenon
<1>6. QED
  BY <1>1, <1>2, <1>3, <1>4, <1>5, Zenon DEF NewsRows!Next, NewsRows!Open, NewsRows!Got, NewsRows!GotNone,
       NewsRows!TypeTitle, NewsRows!SetDate, NewsRows!Close, NewsRows!CallFind, NewsRows!CallWrite, NewsRows!Call,
       NewsRows!vars

LEMMA NewsCallStep == ASSUME NewsRows!NewsAssumption, NewsShape, [NewsRows!Next]_(NewsRows!vars) PROVE NewsCallIs'
<1> USE DEF NewsShape, NewsCallIs
<1>0. NewsRows!NoCall \in NewsCalls /\ NewsRows!NoCall.pc = "idle" /\ NewsRows!NoCall.at = None
  <2>1. Nil \in NewsIds /\ None \in NewsTimes /\ "draft" \in NewsActs
    BY DEF NewsIds, NewsTimes, NewsActs
  <2>2. QED
    BY <2>1, Zenon DEF NewsRows!NoCall, NewsCalls
<1>1. ASSUME NEW n \in News, NEW act \in NewsActs, NewsRows!Call(n, act) PROVE NewsCallIs'
  <2>1. call' = [pc |-> "find", id |-> n, act |-> act, at |-> None] /\ n \in NewsIds /\ None \in NewsTimes
    BY <1>1, Zenon DEF NewsRows!Call, NewsIds, NewsTimes
  <2>2. call' \in NewsCalls
    BY <2>1, Zenon DEF NewsCalls
  <2>3. QED
    BY <2>1, <2>2, Zenon
<1>2. CASE NewsRows!CallFind
  <2>1. call.pc = "find" /\ call.id \in News /\ call.act \in NewsActs /\ call.id \in NewsIds
    BY <1>2, SMT DEF NewsRows!CallFind, NewsCalls, NewsIds
  <2>2. call' = NewsRows!NoCall \/
          (row[call.id] # Nil /\ call' = [pc |-> "write", id |-> call.id, act |-> call.act, at |-> row[call.id].at])
    BY <1>2, Zenon DEF NewsRows!CallFind
  <2>3. row[call.id] # Nil => row[call.id].at \in NewsTimes
    BY <2>1, SMT DEF NewsRowsAre, NewsWritten
  <2>4. ASSUME NEW x \in NewsTimes, call' = [pc |-> "write", id |-> call.id, act |-> call.act, at |-> x]
        PROVE  NewsCallIs'
    <3>1. call' \in NewsCalls
      BY <2>1, <2>4, Zenon DEF NewsCalls
    <3>2. QED
      BY <2>1, <2>4, <3>1, Zenon
  <2>5. CASE call' = NewsRows!NoCall
    BY <1>0, <2>5, Zenon
  <2>6. QED
    BY <2>2, <2>3, <2>4, <2>5, Zenon
<1>3. CASE NewsRows!CallWrite
  BY <1>0, <1>3, Zenon DEF NewsRows!CallWrite
<1>4. CASE UNCHANGED call
  BY <1>4, Zenon
<1>5. QED
  BY <1>1, <1>2, <1>3, <1>4, Zenon DEF NewsRows!Next, NewsRows!Open, NewsRows!Got, NewsRows!GotNone, NewsRows!TypeTitle,
       NewsRows!SetDate, NewsRows!Close, NewsRows!Save, NewsRows!DeleteItem, NewsRows!PutFind, NewsRows!PutWrite,
       NewsRows!Said, NewsRows!PutFailed, NewsRows!vars, NewsActs

LEMMA NewsCountStep ==
    ASSUME NewsRows!NewsAssumption, NewsCounted, [NewsRows!Next]_(NewsRows!vars)
    PROVE  NewsCounted' /\ (saves' = saves \/ saves' = saves + 1)
<1> USE DEF NewsCounted, NewsRows!NewsAssumption
<1>1. \/ UNCHANGED saves
      \/ saves < MaxSaves /\ saves' = saves + 1
  BY Zenon DEF NewsRows!Next, NewsRows!Open, NewsRows!Got, NewsRows!GotNone, NewsRows!TypeTitle, NewsRows!SetDate,
       NewsRows!Close, NewsRows!Save, NewsRows!DeleteItem, NewsRows!PutFind, NewsRows!PutWrite, NewsRows!Said,
       NewsRows!PutFailed, NewsRows!CallFind, NewsRows!CallWrite, NewsRows!Call, NewsRows!vars
<1>2. \/ UNCHANGED calls
      \/ calls < MaxCalls /\ calls' = calls + 1
  BY Zenon DEF NewsRows!Next, NewsRows!Open, NewsRows!Got, NewsRows!GotNone, NewsRows!TypeTitle, NewsRows!SetDate,
       NewsRows!Close, NewsRows!Save, NewsRows!DeleteItem, NewsRows!PutFind, NewsRows!PutWrite, NewsRows!Said,
       NewsRows!PutFailed, NewsRows!CallFind, NewsRows!CallWrite, NewsRows!Call, NewsRows!vars
<1>3. saves' \in 0..MaxSaves /\ calls' \in 0..MaxCalls
  BY <1>1, <1>2, SMT
<1>4. QED
  BY <1>1, <1>3, Zenon

LEMMA NewsDataKeeps ==
    ASSUME NewsRows!NewsAssumption, NewsShape, NewsOneEach, NewsRows!FlagFollowsStatus
    PROVE  /\ NewsRows!Data(put).at = (IF put.status = "PUBLISHED" /\ put.at = None THEN Now ELSE put.at)
           /\ NewsRows!Data(put).pub = (NewsRows!Data(put).status = "PUBLISHED") /\
                (NewsRows!Data(put).pub => NewsRows!Data(put).at # None)
<1>1. Now # None
  BY NewsDatesAre DEF NewsShape
<1>2. NewsRows!Data(put) = [status |-> put.status, pub |-> put.status = "PUBLISHED",
                   at |-> IF put.status = "PUBLISHED" /\
                     put.at = None THEN Now ELSE put.at, title |-> put.title, slug |-> put.slug]
  BY Zenon DEF NewsRows!Data, NewsRows!publishFields
<1>3. PICK b \in BOOLEAN : b = (put.status = "PUBLISHED")
  OBVIOUS
<1>4. PICK x : x = IF put.status = "PUBLISHED" /\ put.at = None THEN Now ELSE put.at
  OBVIOUS
<1>5. NewsRows!Data(put) = [status |-> put.status, pub |-> b, at |-> x, title |-> put.title, slug |-> put.slug]
  BY <1>2, <1>3, <1>4, Zenon
<1>6. NewsRows!Data(put).status = put.status /\ NewsRows!Data(put).pub = b /\ NewsRows!Data(put).at = x
  BY <1>5
<1>7. b => x # None
  BY <1>1, <1>3, <1>4
<1>8. QED
  BY <1>3, <1>4, <1>6, <1>7, Zenon

LEMMA NewsSetKeeps ==
    ASSUME NewsRows!NewsAssumption, NewsShape, NEW n \in News, NEW act, NEW date \in NewsTimes
    PROVE  /\ NewsRows!Set(n, act, date).pub = (NewsRows!Set(n, act, date).status = "PUBLISHED")
           /\ NewsRows!Set(n, act, date).at \in {row[n].at, date, Now}
           /\ row[n].at # None /\ date # None => NewsRows!Set(n, act, date).at # None
           /\ NewsRows!Set(n, act, date).pub => NewsRows!Set(n, act, date).at # None
<1> DEFINE f == CASE act = "publish" -> "PUBLISHED" [] act = "archive" -> "ARCHIVED" [] OTHER -> "DRAFT"
           x == IF act = "delete" THEN row[n].at ELSE IF f = "PUBLISHED" /\ date = None THEN Now ELSE date
<1>1. Now # None
  BY NewsDatesAre DEF NewsShape
<1>2. NewsRows!Set(n, act, date) = [status |-> f, pub |-> f = "PUBLISHED", at |-> x, title |-> row[n].title,
                                    slug |-> row[n].slug]
  BY Zenon DEF NewsRows!Set, NewsRows!publishFields
<1>3. f = "PUBLISHED" => act # "delete"
  BY SMT
<1> HIDE DEF f
<1>4. x \in {row[n].at, date, Now} /\ (row[n].at # None /\ date # None => x # None) /\ (f = "PUBLISHED" => x # None)
  BY <1>1, <1>3, Zenon
<1> HIDE DEF x
<1>5. PICK b \in BOOLEAN : b = (f = "PUBLISHED")
  OBVIOUS
<1>6. NewsRows!Set(n, act, date) = [status |-> f, pub |-> b, at |-> x, title |-> row[n].title, slug |-> row[n].slug]
  BY <1>2, <1>5, Zenon
<1>7. NewsRows!Set(n, act, date).status = f /\ NewsRows!Set(n, act, date).pub = b /\ NewsRows!Set(n, act, date).at = x
  BY <1>6
<1>8. QED
  BY <1>4, <1>5, <1>7, Zenon

(* The rows after a step.                                                  *)
NewsKept == row' = row
NewsStored(n) ==
    /\ put.pc = "write" /\ put.act = "save" /\ (put.id = NewsRows!New => row[n] = Nil) /\
         (put.id # NewsRows!New => n = put.id)
    /\ NewsRows!SlugFree(n, put.slug) /\ row' = [row EXCEPT ![n] = NewsRows!Data(put)]
NewsGone(n) == row' = [row EXCEPT ![n] = Nil]
NewsTurned == /\ call.pc = "write" /\ call.id \in News /\ row[call.id] # Nil
              /\ row' = [row EXCEPT ![call.id] = NewsRows!Set(call.id, call.act, call.at)]

LEMMA NewsRowsMove ==
    ASSUME NewsShape,
           [NewsRows!Next]_(NewsRows!vars)
    PROVE  NewsKept \/ (\E n \in News : NewsStored(n) \/ NewsGone(n)) \/ NewsTurned
<1>1. ASSUME NEW n \in News, NewsRows!PutWrite(n) PROVE NewsKept \/ NewsStored(n) \/ NewsGone(n)
  BY <1>1, Zenon DEF NewsRows!PutWrite, NewsKept, NewsStored, NewsGone
<1>2. CASE NewsRows!CallWrite
  <2>1. call.id \in News /\ call.pc = "write"
    BY <1>2, Zenon DEF NewsRows!CallWrite, NewsShape, NewsCallIs
  <2>2. NewsKept \/ NewsGone(call.id) \/ NewsTurned
    BY <1>2, <2>1, Zenon DEF NewsRows!CallWrite, NewsKept, NewsGone, NewsTurned
  <2>3. QED
    BY <2>1, <2>2
<1>3. CASE UNCHANGED row
  BY <1>3 DEF NewsKept
<1>4. QED
  BY <1>1, <1>2, <1>3, Zenon DEF NewsRows!Next, NewsRows!Open, NewsRows!Got, NewsRows!GotNone, NewsRows!TypeTitle,
       NewsRows!SetDate, NewsRows!Close, NewsRows!Save, NewsRows!DeleteItem, NewsRows!PutFind, NewsRows!Said,
       NewsRows!PutFailed, NewsRows!CallFind, NewsRows!Call, NewsRows!vars

LEMMA NewsRowAfter ==
    ASSUME NewsRows!NewsAssumption, NewsShape, NEW n \in News, NEW r, row' = [row EXCEPT ![n] = r]
    PROVE  row'[n] = r /\ \A m \in News \ {n} : row'[m] = row[m]
BY SMT DEF NewsShape, NewsRowsAre

LEMMA NewsRowsLate ==
    ASSUME NewsRows!NewsAssumption, NewsShape, NewsOneEach, NewsRows!FlagFollowsStatus, NewsAllLate,
           [NewsRows!Next]_(NewsRows!vars), NEW D, Now \in D,
           \A x \in NewsTimes : NewsLate(x) => x \in D
    PROVE  \A n \in News : row'[n] # Nil => row'[n].at \in D
<1>0. \A n \in News : row[n] # Nil => row[n].at \in NewsTimes /\ NewsLate(row[n].at) /\ row[n].at \in D
  <2>1. \A n \in News : row[n] # Nil => row[n].at \in NewsTimes
    BY SMT DEF NewsShape, NewsRowsAre, NewsWritten
  <2>2. QED
    BY <2>1, Zenon DEF NewsAllLate
<1>1. put.at \in NewsTimes /\ call.at \in NewsTimes /\ put.at \in D /\ call.at \in D
  BY Zenon DEF NewsAllLate, NewsShape, NewsPutIs, NewsPuts, NewsCallIs, NewsCalls
<1>2. CASE NewsKept
  BY <1>0, <1>2, Zenon DEF NewsKept
<1>3. ASSUME NEW n \in News, NewsStored(n) \/ NewsGone(n) PROVE \A m \in News : row'[m] # Nil => row'[m].at \in D
  <2>1. NewsRows!Data(put).at \in D
    BY <1>1, NewsDataKeeps
  <2>2. row'[n] \in {Nil, NewsRows!Data(put)} /\ \A m \in News \ {n} : row'[m] = row[m]
    BY <1>3, NewsRowAfter, Zenon DEF NewsStored, NewsGone
  <2>3. QED
    BY <1>0, <2>1, <2>2, Zenon
<1>4. CASE NewsTurned
  <2>1. NewsRows!Set(call.id, call.act, call.at).at \in {row[call.id].at, call.at, Now}
    BY <1>1, <1>4, NewsSetKeeps DEF NewsTurned
  <2>2. row'[call.id] = NewsRows!Set(call.id, call.act, call.at) /\ \A m \in News \ {call.id} : row'[m] = row[m]
    BY <1>4, NewsRowAfter, Zenon DEF NewsTurned
  <2>3. row'[call.id].at \in D
    BY <1>0, <1>1, <1>4, <2>1, <2>2, Zenon DEF NewsTurned
  <2>4. QED
    BY <1>0, <2>2, <2>3, Zenon
<1>5. QED
  BY <1>2, <1>3, <1>4, NewsRowsMove, Zenon

LEMMA NewsLateStep ==
    ASSUME NewsRows!NewsAssumption, NewsShape, NewsOneEach, NewsRows!FlagFollowsStatus, NewsAllLate,
           [NewsRows!Next]_(NewsRows!vars) PROVE NewsAllLate'
<1>1. NewsReach' \in Int /\ NewsReach \in Int /\ NewsReach' <= NewsReach /\ NewsReach <= Now /\
        (saves' = saves + 1 => NewsReach' = NewsReach - Zone)
      /\ Now \in Int /\ Zone \in Nat
  BY NewsCountStep, NewsReachMoves, NewsReachIs DEF NewsShape, NewsRows!NewsAssumption
<1>2. PICK D : \A x : x \in D <=> x \in NewsTimes /\ (x = None \/ (NewsReach' <= x /\ x <= Now))
  <2> DEFINE D == {x \in NewsTimes : x = None \/ (NewsReach' <= x /\ x <= Now)}
  <2>1. \A x : x \in D <=> x \in NewsTimes /\ (x = None \/ (NewsReach' <= x /\ x <= Now))
    BY Zenon
  <2>2. QED
    BY <2>1
<1>3. Now \in D /\ None \in D /\ \A x \in NewsTimes : NewsLate(x) => x \in D
  <2>1. Now \in NewsTimes /\ None \in NewsTimes /\ NewsReach' <= Now /\ Now <= Now
    BY <1>1, SMT DEF NewsTimes
  <2>2. \A x \in NewsTimes : NewsLate(x) => (x = None \/ (NewsReach' <= x /\ x <= Now))
    BY <1>1, SMT DEF NewsTimes, NewsLate
  <2>3. QED
    BY <1>2, <2>1, <2>2, Zenon
<1>4. /\ put.at \in D /\ call.at \in D /\ form.v.at \in D /\ form.v.at \in NewsTimes
      /\ \A n \in News : row[n] # Nil => row[n].at \in D
      /\ \A n \in News : cache[n] # Nil => cache[n].at \in D
  <2>1. put.at \in NewsTimes /\ call.at \in NewsTimes /\ form.v.at \in NewsTimes
    BY Zenon DEF NewsShape, NewsPutIs, NewsPuts, NewsCallIs, NewsCalls, NewsDialogIs, NewsDialogs, NewsFields
  <2>2. \A n \in News : (row[n] # Nil => row[n].at \in NewsTimes) /\ (cache[n] # Nil => cache[n].at \in NewsTimes)
    BY SMT DEF NewsShape, NewsRowsAre, NewsWritten
  <2>3. QED
    BY <1>3, <2>1, <2>2, Zenon DEF NewsAllLate
<1>5. \A n \in News : row'[n] # Nil => row'[n].at \in D
  BY <1>3, NewsRowsLate
<1>6. \A n \in News : cache'[n] # Nil => cache'[n].at \in D
  <2>1. CASE UNCHANGED cache
    BY <1>4, <2>1, Zenon
  <2>2. ASSUME NEW n \in News, NewsRows!Got(n) PROVE \A m \in News : cache'[m] # Nil => cache'[m].at \in D
    <3>1. row[n] # Nil /\ cache' = [cache EXCEPT ![n] = row[n]]
      BY <2>2, Zenon DEF NewsRows!Got
    <3>2. cache'[n] = row[n] /\ \A m \in News \ {n} : cache'[m] = cache[m]
      BY <3>1, SMT DEF NewsShape, NewsRowsAre
    <3>3. QED
      BY <1>4, <3>1, <3>2, Zenon
  <2>3. QED
    BY <2>1, <2>2, Zenon DEF NewsRows!Next, NewsRows!Open, NewsRows!GotNone, NewsRows!TypeTitle, NewsRows!SetDate,
         NewsRows!Close, NewsRows!Save, NewsRows!DeleteItem, NewsRows!PutFind, NewsRows!PutWrite, NewsRows!Said,
         NewsRows!PutFailed, NewsRows!CallFind, NewsRows!CallWrite, NewsRows!Call, NewsRows!vars
<1>7. form'.v.at \in D
  <2>0. NewsRows!Values(NewsRows!New, Nil).at = None /\ NewsRows!Values(Nil, Nil).at = None /\ \A n, r : r # Nil =>
          NewsRows!Values(n, r).at = r.at
    BY DEF NewsRows!Values
  <2>1. ASSUME NEW id \in News \cup {NewsRows!New}, NewsRows!Open(id) PROVE form'.v.at \in D
    <3>1. form'.v = IF id = NewsRows!New THEN NewsRows!Values(NewsRows!New, Nil)
            ELSE IF cache[id] # Nil THEN NewsRows!Values(id, cache[id]) ELSE form.v
      BY <2>1 DEF NewsRows!Open
    <3>2. id # NewsRows!New => id \in News
      BY <2>1
    <3>3. CASE id = NewsRows!New
      BY <1>3, <2>0, <3>1, <3>3, Zenon
    <3>4. CASE id # NewsRows!New /\ cache[id] # Nil
      <4>1. form'.v = NewsRows!Values(id, cache[id])
        BY <3>1, <3>4, Zenon
      <4>2. QED
        BY <1>4, <2>0, <3>2, <3>4, <4>1
    <3>5. CASE id # NewsRows!New /\ cache[id] = Nil
      <4>1. form'.v = form.v
        BY <3>1, <3>5, Zenon
      <4>2. QED
        BY <1>4, <4>1, Zenon
    <3>6. QED
      BY <3>3, <3>4, <3>5, Zenon
  <2>2. ASSUME NEW n \in News, NewsRows!Got(n) \/ NewsRows!GotNone(n) PROVE form'.v.at \in D
    <3>1. form' = form \/ form'.v = NewsRows!Values(Nil, Nil) \/ (row[n] # Nil /\ form'.v = NewsRows!Values(n, row[n]))
      BY <2>2 DEF NewsRows!Got, NewsRows!GotNone
    <3>2. QED
      BY <1>3, <1>4, <2>0, <3>1
  <2>3. CASE NewsRows!SetDate \/ \E t \in Titles : NewsRows!TypeTitle(t)
    <3>1. \E v : form' = [form EXCEPT !.v = v] /\ v.at \in D
      <4>1. CASE NewsRows!SetDate
        <5> DEFINE v == [title |-> form.v.title, slug |-> form.v.slug, at |-> Now, of |-> form.v.of, dated |-> TRUE]
        <5>1. form' = [form EXCEPT !.v = v] /\ v.at = Now
          BY <4>1, Zenon DEF NewsRows!SetDate
        <5>2. QED
          BY <1>3, <5>1, Zenon
      <4>2. ASSUME NEW t \in Titles, NewsRows!TypeTitle(t) PROVE \E v : form' = [form EXCEPT !.v = v] /\ v.at \in D
        <5> DEFINE v == [title |-> t, slug |-> IF form.v.slug = Empty THEN Slugify[t] ELSE form.v.slug,
                         at |-> form.v.at, of |-> form.v.of, dated |-> form.v.dated]
        <5>1. form' = [form EXCEPT !.v = v] /\ v.at = form.v.at
          BY <4>2, Zenon DEF NewsRows!TypeTitle
        <5>2. QED
          BY <1>4, <5>1, Zenon
      <4>3. QED
        BY <2>3, <4>1, <4>2, Zenon
    <3>2. PICK v : form' = [form EXCEPT !.v = v] /\ v.at \in D
      BY <3>1
    <3>3. form'.v = v
      BY <3>2, SMT DEF NewsShape, NewsDialogIs, NewsDialogs
    <3>4. QED
      BY <3>2, <3>3
  <2>4. CASE form' = form \/ form' = NewsRows!Closed
    <3>1. form'.v = form.v
      BY <2>4 DEF NewsRows!Closed
    <3>2. QED
      BY <1>4, <3>1, Zenon
  <2>5. QED
    BY <2>1, <2>2, <2>3, <2>4, Zenon DEF NewsRows!Next, NewsRows!Close, NewsRows!Save, NewsRows!DeleteItem,
         NewsRows!PutFind, NewsRows!PutWrite, NewsRows!Said, NewsRows!PutFailed, NewsRows!CallFind, NewsRows!CallWrite,
         NewsRows!Call, NewsRows!vars
<1>8. put'.at \in D
  <2>0. NewsRows!NoPut.at = None /\ NewsRows!Request("find", form.id, "delete").at = None
    BY DEF NewsRows!NoPut, NewsRows!Request
  <2>1. ASSUME NEW s \in NewsRows!Statuses, NewsRows!Save(s) PROVE put'.at \in D
    <3>1. put'.at = NewsRows!Payload(s).at
      <4>1. put' = NewsRows!Payload(s) \/ put' = [NewsRows!Payload(s) EXCEPT !.pc = "said"]
        BY <2>1, Zenon DEF NewsRows!Save
      <4>2. PICK p \in NewsPuts : p = NewsRows!Payload(s)
        BY NewsPayloadIs DEF NewsShape
      <4>3. put' = p \/ put' = [p EXCEPT !.pc = "said"]
        BY <4>1, <4>2
      <4>4. put'.at = p.at
        BY <4>3, SMT DEF NewsPuts
      <4>5. QED
        BY <4>2, <4>4
    <3>2. NewsRows!Payload(s).at = IF form.v.at = None THEN None ELSE IF form.v.dated THEN form.v.at
            ELSE form.v.at - Zone
      BY DEF NewsRows!Payload
    <3>3. NewsReach' = NewsReach - Zone
      BY <1>1, <2>1, Zenon DEF NewsRows!Save
    <3>4. form.v.at = None \/
            (form.v.at \in Int /\ form.v.at - Zone \in NewsTimes /\ NewsReach' <= form.v.at - Zone /\
                form.v.at - Zone <= Now)
      BY <1>1, <1>4, <3>3, SMT DEF NewsAllLate, NewsLate, NewsTimes
    <3>5. form.v.at = None \/ form.v.at - Zone \in D
      BY <1>2, <3>4, Zenon
    <3>6. QED
      BY <1>3, <1>4, <3>1, <3>2, <3>5, Zenon
  <2>2. CASE NewsRows!PutFind
    <3>1. CASE put' = NewsRows!NoPut
      BY <1>3, <2>0, <3>1, Zenon
    <3>2. CASE row[put.id] # Nil /\ put' = [put EXCEPT !.pc = "write", !.at = IF @ # None THEN @ ELSE row[put.id].at]
      <4>1. put.id \in News /\ put \in NewsPuts
        BY <2>2, Zenon DEF NewsRows!PutFind, NewsShape, NewsPutIs
      <4>2. PICK x \in D : x = IF put.at # None THEN put.at ELSE row[put.id].at
        BY <1>4, <3>2, <4>1
      <4>3. PICK p : p = [put EXCEPT !.pc = "write"]
        OBVIOUS
      <4>4. put' = [p EXCEPT !.at = x]
        BY <3>2, <4>2, <4>3, Zenon
      <4>5. put'.at = x
        BY <4>1, <4>3, <4>4, SMT DEF NewsPuts
      <4>6. QED
        BY <4>5
    <3>3. QED
      BY <2>2, <3>1, <3>2, Zenon DEF NewsRows!PutFind
  <2>3. CASE put' = NewsRows!NoPut \/ put' = NewsRows!Request("find", form.id, "delete") \/ put' = put
    BY <1>3, <1>4, <2>0, <2>3, Zenon
  <2>4. CASE put' = [put EXCEPT !.pc = "said"]
    <3>1. put'.at = put.at
      BY <2>4, SMT DEF NewsShape, NewsPutIs, NewsPuts
    <3>2. QED
      BY <1>4, <3>1
  <2>5. QED
    BY <2>1, <2>2, <2>3, <2>4, Zenon DEF NewsRows!Next, NewsRows!Open, NewsRows!Got, NewsRows!GotNone,
         NewsRows!TypeTitle, NewsRows!SetDate, NewsRows!Close, NewsRows!DeleteItem, NewsRows!PutWrite, NewsRows!Said,
         NewsRows!PutFailed, NewsRows!CallFind, NewsRows!CallWrite, NewsRows!Call, NewsRows!vars
<1>9. call'.at \in D
  <2>0. NewsRows!NoCall.at = None
    BY DEF NewsRows!NoCall
  <2>1. ASSUME NEW n \in News, NEW act, NewsRows!Call(n, act) PROVE call'.at \in D
    BY <1>3, <2>1 DEF NewsRows!Call
  <2>2. CASE NewsRows!CallFind
    <3>1. call.id \in News
      BY <2>2, Zenon DEF NewsRows!CallFind, NewsShape, NewsCallIs
    <3>2. call' = NewsRows!NoCall \/ (row[call.id] # Nil /\ call'.at = row[call.id].at)
      BY <2>2 DEF NewsRows!CallFind
    <3>3. QED
      BY <1>3, <1>4, <2>0, <3>1, <3>2, Zenon
  <2>3. CASE call' = NewsRows!NoCall \/ call' = call
    BY <1>3, <1>4, <2>0, <2>3, Zenon
  <2>4. QED
    BY <2>1, <2>2, <2>3, Zenon DEF NewsRows!Next, NewsRows!Open, NewsRows!Got, NewsRows!GotNone, NewsRows!TypeTitle,
         NewsRows!SetDate, NewsRows!Close, NewsRows!Save, NewsRows!DeleteItem, NewsRows!PutFind, NewsRows!PutWrite,
         NewsRows!Said, NewsRows!PutFailed, NewsRows!CallWrite, NewsRows!vars
<1>10. QED
  <2>1. \A x : x \in D => x = None \/ (NewsReach' <= x /\ x <= Now)
    BY <1>2, Zenon
  <2>2. /\ \A n \in News : (row'[n] # Nil => NewsLate(row[n].at)') /\ (cache'[n] # Nil => NewsLate(cache[n].at)')
        /\ NewsLate(form.v.at)' /\ NewsLate(put.at)' /\ NewsLate(call.at)'
    BY <1>5, <1>6, <1>7, <1>8, <1>9, <2>1, Zenon DEF NewsLate
  <2>3. QED
    BY <2>2, Zenon DEF NewsAllLate

LEMMA NewsOneEachStep ==
    ASSUME NewsRows!NewsAssumption, NewsShape, NewsOneEach, [NewsRows!Next]_(NewsRows!vars) PROVE NewsOneEach'
<1>1. CASE NewsKept
  BY <1>1, Zenon DEF NewsOneEach, NewsKept
<1>2. ASSUME NEW n \in News, NewsStored(n) PROVE NewsOneEach'
  <2>1. row'[n] = NewsRows!Data(put) /\ \A m \in News \ {n} : row'[m] = row[m]
    BY <1>2, NewsRowAfter, Zenon DEF NewsStored
  <2>2. NewsRows!Data(put).slug = put.slug
    BY NewsDataIs DEF NewsShape
  <2>3. \A m \in News \ {n} : row[m] # Nil => row[m].slug # put.slug
    BY <1>2, Zenon DEF NewsStored, NewsRows!SlugFree
  <2>4. QED
    BY <2>1, <2>2, <2>3, Zenon DEF NewsOneEach
<1>3. ASSUME NEW n \in News, NewsGone(n) PROVE NewsOneEach'
  <2>1. row'[n] = Nil /\ \A m \in News \ {n} : row'[m] = row[m]
    BY <1>3, NewsRowAfter, Zenon DEF NewsGone
  <2>2. QED
    BY <2>1, Zenon DEF NewsOneEach
<1>4. CASE NewsTurned
  <2>1. call.id \in News /\ call.at \in NewsTimes /\ row[call.id] # Nil
    BY <1>4, Zenon DEF NewsTurned, NewsShape, NewsCallIs, NewsCalls
  <2>2. row'[call.id] = NewsRows!Set(call.id, call.act, call.at) /\ \A m \in News \ {call.id} : row'[m] = row[m]
    BY <1>4, <2>1, NewsRowAfter, Zenon DEF NewsTurned
  <2>3. NewsRows!Set(call.id, call.act, call.at).slug = row[call.id].slug
    BY <2>1, NewsSetIs DEF NewsShape
  <2>4. \A m \in News : row'[m] # Nil => row[m] # Nil /\ row'[m].slug = row[m].slug
    BY <2>1, <2>2, <2>3
  <2>5. QED
    BY <2>4, Zenon DEF NewsOneEach
<1>5. QED
  BY <1>1, <1>2, <1>3, <1>4, NewsRowsMove, Zenon

LEMMA NewsFlagStep ==
    ASSUME NewsRows!NewsAssumption, NewsShape, NewsOneEach, NewsRows!FlagFollowsStatus,
           [NewsRows!Next]_(NewsRows!vars) PROVE NewsRows!FlagFollowsStatus'
<1>1. CASE NewsKept
  BY <1>1, Zenon DEF NewsRows!FlagFollowsStatus, NewsKept
<1>2. ASSUME NEW n \in News, NewsStored(n) PROVE NewsRows!FlagFollowsStatus'
  <2>1. row'[n] = NewsRows!Data(put) /\ \A m \in News \ {n} : row'[m] = row[m]
    BY <1>2, NewsRowAfter, Zenon DEF NewsStored
  <2>2. row'[n].pub = (row'[n].status = "PUBLISHED") /\ (row'[n].pub => row'[n].at # None)
    BY <2>1, NewsDataKeeps, Zenon
  <2>3. QED
    BY <2>1, <2>2, Zenon DEF NewsRows!FlagFollowsStatus
<1>3. ASSUME NEW n \in News, NewsGone(n) PROVE NewsRows!FlagFollowsStatus'
  <2>1. row'[n] = Nil /\ \A m \in News \ {n} : row'[m] = row[m]
    BY <1>3, NewsRowAfter, Zenon DEF NewsGone
  <2>2. QED
    BY <2>1, Zenon DEF NewsRows!FlagFollowsStatus
<1>4. CASE NewsTurned
  <2>1. call.id \in News /\ call.at \in NewsTimes
    BY <1>4, Zenon DEF NewsTurned, NewsShape, NewsCallIs, NewsCalls
  <2>2. row'[call.id] = NewsRows!Set(call.id, call.act, call.at) /\ \A m \in News \ {call.id} : row'[m] = row[m]
    BY <1>4, <2>1, NewsRowAfter, Zenon DEF NewsTurned
  <2>3. row'[call.id].pub = (row'[call.id].status = "PUBLISHED") /\ (row'[call.id].pub => row'[call.id].at # None)
    <3>1. PICK r : r = NewsRows!Set(call.id, call.act, call.at)
      OBVIOUS
    <3>2. r.pub = (r.status = "PUBLISHED") /\ (r.pub => r.at # None)
      BY <2>1, <3>1, NewsSetKeeps, Zenon
    <3>3. QED
      BY <2>2, <3>1, <3>2, Zenon
  <2>4. QED
    BY <2>1, <2>2, <2>3, Zenon DEF NewsRows!FlagFollowsStatus
<1>5. QED
  BY <1>1, <1>2, <1>3, <1>4, NewsRowsMove, Zenon

LEMMA NewsOwnStep ==
    ASSUME NewsRows!NewsAssumption, NewsShape, NewsOwnFields, [NewsRows!Next]_(NewsRows!vars) PROVE NewsOwnFields'
<1>0. \A n, r : NewsRows!Values(n, r).of = n
  BY DEF NewsRows!Values
<1>1. form'.open /\ form'.ready /\ form'.v.of # Nil => form'.v.of = form'.id
  <2>1. ASSUME NEW id \in News \cup {NewsRows!New}, NewsRows!Open(id)
        PROVE  form'.open /\ form'.ready /\ form'.v.of # Nil => form'.v.of = form'.id
    <3>1. /\ form'.id = id /\ form'.ready = (id = NewsRows!New \/ cache[id] # Nil)
          /\ form'.v = IF id = NewsRows!New THEN NewsRows!Values(NewsRows!New, Nil)
               ELSE IF cache[id] # Nil THEN NewsRows!Values(id, cache[id]) ELSE form.v
      BY <2>1 DEF NewsRows!Open
    <3>2. QED
      BY <1>0, <3>1
  <2>2. ASSUME NEW n \in News, form'.id = n, form'.v = NewsRows!Values(n, row[n]) \/ form'.v = NewsRows!Values(Nil, Nil)
        PROVE form'.v.of # Nil => form'.v.of = form'.id
    BY <1>0, <2>2
  <2>3. ASSUME NEW n \in News, NewsRows!Got(n) \/ NewsRows!GotNone(n)
        PROVE form' = form \/
          (form'.id = n /\ (form'.v = NewsRows!Values(n, row[n]) \/ form'.v = NewsRows!Values(Nil, Nil)))
    BY <2>3 DEF NewsRows!Got, NewsRows!GotNone
  <2>4. CASE form' = form
    BY <2>4, Zenon DEF NewsOwnFields
  <2>5. CASE form' = NewsRows!Closed
    <3>1. form'.open = FALSE
      BY <2>5 DEF NewsRows!Closed
    <3>2. QED
      BY <3>1
  <2>6. CASE NewsRows!SetDate \/ \E t \in Titles : NewsRows!TypeTitle(t)
    <3>1. \E v : form' = [form EXCEPT !.v = v] /\ v.of = form.v.of
      <4>1. CASE NewsRows!SetDate
        <5> DEFINE v == [title |-> form.v.title, slug |-> form.v.slug, at |-> Now, of |-> form.v.of, dated |-> TRUE]
        <5>1. form' = [form EXCEPT !.v = v] /\ v.of = form.v.of
          BY <4>1, Zenon DEF NewsRows!SetDate
        <5>2. QED
          BY <5>1, Zenon
      <4>2. ASSUME NEW t \in Titles, NewsRows!TypeTitle(t)
            PROVE  \E v : form' = [form EXCEPT !.v = v] /\ v.of = form.v.of
        <5> DEFINE v == [title |-> t, slug |-> IF form.v.slug = Empty THEN Slugify[t] ELSE form.v.slug,
                         at |-> form.v.at, of |-> form.v.of, dated |-> form.v.dated]
        <5>1. form' = [form EXCEPT !.v = v] /\ v.of = form.v.of
          BY <4>2, Zenon DEF NewsRows!TypeTitle
        <5>2. QED
          BY <5>1, Zenon
      <4>3. QED
        BY <2>6, <4>1, <4>2, Zenon
    <3>2. PICK v : form' = [form EXCEPT !.v = v] /\ v.of = form.v.of
      BY <3>1
    <3>3. form'.v = v /\ form'.id = form.id /\ form'.open = form.open /\ form'.ready = form.ready
      BY <3>2, SMT DEF NewsShape, NewsDialogIs, NewsDialogs
    <3>4. QED
      BY <3>2, <3>3, Zenon DEF NewsOwnFields
  <2>7. QED
    BY <2>1, <2>2, <2>3, <2>4, <2>5, <2>6, Zenon DEF NewsRows!Next, NewsRows!Close, NewsRows!Save, NewsRows!DeleteItem,
         NewsRows!PutFind, NewsRows!PutWrite, NewsRows!Said, NewsRows!PutFailed, NewsRows!CallFind, NewsRows!CallWrite,
         NewsRows!Call, NewsRows!vars
<1>2. NewsRows!WrittenFromItsItem'
  <2>1. ASSUME NEW s \in NewsRows!Statuses, NewsRows!Save(s) PROVE NewsRows!WrittenFromItsItem'
    <3>1. put' = NewsRows!Payload(s) \/ put' = [NewsRows!Payload(s) EXCEPT !.pc = "said"]
      BY <2>1, Zenon DEF NewsRows!Save
    <3>2. /\ NewsRows!Payload(s) \in NewsPuts /\ NewsRows!Payload(s).id = form.id /\ NewsRows!Payload(s).of = form.v.of
          /\ NewsRows!Payload(s).sure = (form.ready /\ form.v.of # Nil) /\ form.open
      BY <2>1, NewsPayloadIs, Zenon DEF NewsShape, NewsRows!Save
    <3>3. CASE put' = NewsRows!Payload(s)
      BY <3>2, <3>3, Zenon DEF NewsRows!WrittenFromItsItem, NewsOwnFields
    <3>4. CASE put' = [NewsRows!Payload(s) EXCEPT !.pc = "said"]
      <4>1. PICK p \in NewsPuts : p = NewsRows!Payload(s)
        BY <3>2
      <4>2. put' = [p EXCEPT !.pc = "said"]
        BY <3>4, <4>1
      <4>3. put'.pc = "said"
        BY <4>2, SMT DEF NewsPuts
      <4>4. QED
        BY <4>3 DEF NewsRows!WrittenFromItsItem
    <3>5. QED
      BY <3>1, <3>3, <3>4
  <2>2. CASE NewsRows!DeleteItem
    <3>1. put'.act = "delete"
      BY <2>2 DEF NewsRows!DeleteItem, NewsRows!Request
    <3>2. QED
      BY <3>1 DEF NewsRows!WrittenFromItsItem
  <2>3. CASE put' = NewsRows!NoPut
    <3>1. put'.pc = "idle"
      BY <2>3 DEF NewsRows!NoPut, NewsRows!Request
    <3>2. QED
      BY <3>1 DEF NewsRows!WrittenFromItsItem
  <2>4. CASE put' = [put EXCEPT !.pc = "said"]
    <3>1. put'.pc = "said"
      BY <2>4, SMT DEF NewsShape, NewsPutIs, NewsPuts
    <3>2. QED
      BY <3>1 DEF NewsRows!WrittenFromItsItem
  <2>5. CASE put.pc = "find" /\ \E x : put' = [put EXCEPT !.pc = "write", !.at = x]
    <3>1. PICK x : put' = [put EXCEPT !.pc = "write", !.at = x]
      BY <2>5
    <3>2. PICK p : p = [put EXCEPT !.pc = "write"]
      OBVIOUS
    <3>3. put' = [p EXCEPT !.at = x]
      BY <3>1, <3>2, Zenon
    <3>4. put'.id = put.id /\ put'.of = put.of /\ put'.act = put.act /\ put'.sure = put.sure
      BY <3>2, <3>3, SMT DEF NewsShape, NewsPutIs, NewsPuts
    <3>5. QED
      BY <2>5, <3>4, Zenon DEF NewsOwnFields, NewsRows!WrittenFromItsItem
  <2>6. CASE put' = put
    BY <2>6, Zenon DEF NewsOwnFields, NewsRows!WrittenFromItsItem
  <2>7. NewsRows!PutFind =>
          put' = NewsRows!NoPut \/ (put.pc = "find" /\ \E x : put' = [put EXCEPT !.pc = "write", !.at = x])
    BY Zenon DEF NewsRows!PutFind
  <2>8. QED
    BY <2>1, <2>2, <2>3, <2>4, <2>5, <2>6, <2>7, Zenon DEF NewsRows!Next, NewsRows!Open, NewsRows!Got, NewsRows!GotNone,
         NewsRows!TypeTitle, NewsRows!SetDate, NewsRows!Close, NewsRows!PutWrite, NewsRows!Said, NewsRows!PutFailed,
         NewsRows!CallFind, NewsRows!CallWrite, NewsRows!Call, NewsRows!vars
<1>3. QED
  BY <1>1, <1>2 DEF NewsOwnFields

LEMMA NewsKnownStep ==
    ASSUME NewsRows!NewsAssumption, NewsShape, NewsDatesKnown, [NewsRows!Next]_(NewsRows!vars) PROVE NewsDatesKnown'
<1> SUFFICES ASSUME ~crossed' PROVE (put'.act = "save" => NewsDated(put)') /\ NewsDated(call)'
  BY Zenon DEF NewsDatesKnown
<1>0. /\ put.act = "save" => NewsDated(put)
      /\ NewsDated(call)
  <2>1. ~crossed
    BY Zenon DEF NewsRows!Next, NewsRows!Open, NewsRows!Got, NewsRows!GotNone, NewsRows!TypeTitle, NewsRows!SetDate,
         NewsRows!Close, NewsRows!Save, NewsRows!DeleteItem, NewsRows!PutFind, NewsRows!PutWrite, NewsRows!Said,
         NewsRows!PutFailed, NewsRows!CallFind, NewsRows!CallWrite, NewsRows!Call, NewsRows!vars
  <2>2. QED
    BY <2>1, Zenon DEF NewsDatesKnown
<1>1. "find" # "write" /\ "idle" # "write" /\ "said" # "write"
  OBVIOUS
<1>2. ASSUME NEW n \in News, NewsRows!PutWrite(n), call.pc = "write", call.id \in News
      PROVE  row'[call.id] = row[call.id]
  <2>1. row' = row \/ call.id # n
    BY <1>2, Zenon DEF NewsRows!PutWrite, NewsRows!Crosses
  <2>2. row' = row \/ row' = [row EXCEPT ![n] = Nil] \/ row' = [row EXCEPT ![n] = NewsRows!Data(put)]
    BY <1>2, Zenon DEF NewsRows!PutWrite
  <2>3. row' = row \/ \A m \in News \ {n} : row'[m] = row[m]
    BY <2>2, NewsRowAfter
  <2>4. QED
    BY <1>2, <2>1, <2>3, Zenon
<1>3. ASSUME NewsRows!CallWrite, put.pc = "write", put.id \in News PROVE row'[put.id] = row[put.id]
  <2>1. put.id # call.id /\ call.id \in News
    BY <1>3, Zenon DEF NewsRows!CallWrite, NewsRows!Crosses, NewsShape, NewsCallIs
  <2>2. row' = row \/ row' = [row EXCEPT ![call.id] = Nil] \/
          row' = [row EXCEPT ![call.id] = NewsRows!Set(call.id, call.act, call.at)]
    BY <1>3, Zenon DEF NewsRows!CallWrite
  <2>3. row' = row \/ \A m \in News \ {call.id} : row'[m] = row[m]
    BY <2>1, <2>2, NewsRowAfter
  <2>4. QED
    BY <1>3, <2>1, <2>3, Zenon
<1>4. NewsDated(call)'
  <2>1. CASE call' = call /\ row' = row
    BY <1>0, <2>1, Zenon DEF NewsDated
  <2>2. CASE call'.pc # "write"
    BY <2>2, Zenon DEF NewsDated
  <2>3. ASSUME NEW n \in News, NewsRows!PutWrite(n) PROVE NewsDated(call)'
    <3>1. call' = call
      BY <2>3 DEF NewsRows!PutWrite
    <3>2. QED
      BY <1>0, <1>2, <2>3, <3>1, Zenon DEF NewsDated
  <2>4. CASE NewsRows!CallFind
    <3>1. row' = row /\ (call'.pc = "idle" \/ (call'.id = call.id /\ call'.at = row[call.id].at))
      BY <2>4 DEF NewsRows!CallFind, NewsRows!NoCall
    <3>2. QED
      BY <1>1, <3>1, Zenon DEF NewsDated
  <2>5. CASE NewsRows!CallWrite
    <3>1. call'.pc = "idle"
      BY <2>5 DEF NewsRows!CallWrite, NewsRows!NoCall
    <3>2. QED
      BY <1>1, <2>2, <3>1
  <2>6. ASSUME NEW n, NEW act, NewsRows!Call(n, act) PROVE call'.pc # "write"
    BY <2>6 DEF NewsRows!Call
  <2>7. QED
    BY <2>1, <2>2, <2>3, <2>4, <2>5, <2>6, Zenon DEF NewsRows!Next, NewsRows!Open, NewsRows!Got, NewsRows!GotNone,
         NewsRows!TypeTitle, NewsRows!SetDate, NewsRows!Close, NewsRows!Save, NewsRows!DeleteItem, NewsRows!PutFind,
         NewsRows!Said, NewsRows!PutFailed, NewsRows!vars
<1>5. put'.act = "save" => NewsDated(put)'
  <2>1. CASE put' = put /\ row' = row
    BY <1>0, <2>1, Zenon DEF NewsDated
  <2>2. CASE put'.pc # "write"
    BY <2>2, Zenon DEF NewsDated
  <2>3. CASE put' = NewsRows!NoPut
    <3>1. put'.pc = "idle"
      BY <2>3 DEF NewsRows!NoPut, NewsRows!Request
    <3>2. QED
      BY <1>1, <2>2, <3>1
  <2>4. CASE put' = [put EXCEPT !.pc = "said"]
    <3>1. put'.pc = "said"
      BY <2>4, SMT DEF NewsShape, NewsPutIs, NewsPuts
    <3>2. QED
      BY <1>1, <2>2, <3>1
  <2>5. CASE NewsRows!DeleteItem
    <3>1. put'.pc = "find"
      BY <2>5 DEF NewsRows!DeleteItem, NewsRows!Request
    <3>2. QED
      BY <1>1, <2>2, <3>1
  <2>6. ASSUME NEW s \in NewsRows!Statuses, NewsRows!Save(s) PROVE put'.pc = "write" => put'.id \notin News
    <3>1. put' = NewsRows!Payload(s) \/ put' = [NewsRows!Payload(s) EXCEPT !.pc = "said"]
      BY <2>6, Zenon DEF NewsRows!Save
    <3>2. PICK p \in NewsPuts : p = NewsRows!Payload(s)
      BY NewsPayloadIs DEF NewsShape
    <3>3. p.pc = (IF form.id = NewsRows!New THEN "write" ELSE "find") /\ p.id = form.id
      BY <3>2, NewsPayloadIs DEF NewsShape
    <3>4. put' = [p EXCEPT !.pc = "said"] => put'.pc = "said"
      BY SMT DEF NewsPuts
    <3>5. p.pc = "write" => p.id \notin News
      BY <3>3 DEF NewsRows!NewsAssumption
    <3>6. QED
      BY <1>1, <3>1, <3>2, <3>4, <3>5, Zenon
  <2>7. CASE NewsRows!PutFind
    <3>1. CASE put' = NewsRows!NoPut
      BY <2>3, <3>1
    <3>2. CASE put' = [put EXCEPT !.pc = "write", !.at = IF @ # None THEN @ ELSE row[put.id].at]
      <4>1. PICK x : x = IF put.at # None THEN put.at ELSE row[put.id].at
        OBVIOUS
      <4>2. PICK p : p = [put EXCEPT !.pc = "write"]
        OBVIOUS
      <4>3. put' = [p EXCEPT !.at = x]
        BY <3>2, <4>1, <4>2, Zenon
      <4>4. put'.at = x /\ put'.id = put.id
        BY <4>2, <4>3, SMT DEF NewsShape, NewsPutIs, NewsPuts
      <4>5. row' = row
        BY <2>7 DEF NewsRows!PutFind
      <4>6. row[put.id].at # None => x # None
        BY <4>1, Zenon
      <4>7. QED
        BY <4>4, <4>5, <4>6, Zenon DEF NewsDated
    <3>3. QED
      BY <2>7, <3>1, <3>2, Zenon DEF NewsRows!PutFind
  <2>8. CASE NewsRows!CallWrite
    <3>1. put' = put
      BY <2>8 DEF NewsRows!CallWrite
    <3>2. QED
      BY <1>0, <1>3, <2>8, <3>1, Zenon DEF NewsDated
  <2>9. ASSUME NEW s \in NewsRows!Statuses, NewsRows!Save(s) PROVE NewsDated(put)'
    BY <2>6, <2>9, Zenon DEF NewsDated
  <2>10. QED
    BY <2>1, <2>3, <2>4, <2>5, <2>7, <2>8, <2>9, Zenon DEF NewsRows!Next, NewsRows!Open, NewsRows!Got, NewsRows!GotNone,
         NewsRows!TypeTitle, NewsRows!SetDate, NewsRows!Close, NewsRows!PutWrite, NewsRows!Said, NewsRows!PutFailed,
         NewsRows!CallFind, NewsRows!Call, NewsRows!vars
<1>6. QED
  BY <1>4, <1>5

(* What no step takes back.                                                *)
NewsDateKept == \A n \in News : row[n] # Nil /\ row'[n] # Nil /\ row[n].at # None /\ ~crossed' => row'[n].at # None

LEMMA NewsDateKeeps ==
    ASSUME NewsRows!NewsAssumption, NewsShape, NewsOneEach, NewsRows!FlagFollowsStatus, NewsDatesKnown,
           [NewsRows!Next]_(NewsRows!vars)
    PROVE  NewsDateKept
<1> SUFFICES ASSUME ~crossed'
             PROVE  \A n \in News : row[n] # Nil /\ row'[n] # Nil /\ row[n].at # None => row'[n].at # None
  BY Zenon DEF NewsDateKept
<1>0. /\ put.act = "save" => NewsDated(put)
      /\ NewsDated(call)
  <2>1. ~crossed
    BY Zenon DEF NewsRows!Next, NewsRows!Open, NewsRows!Got, NewsRows!GotNone, NewsRows!TypeTitle, NewsRows!SetDate,
         NewsRows!Close, NewsRows!Save, NewsRows!DeleteItem, NewsRows!PutFind, NewsRows!PutWrite, NewsRows!Said,
         NewsRows!PutFailed, NewsRows!CallFind, NewsRows!CallWrite, NewsRows!Call, NewsRows!vars
  <2>2. QED
    BY <2>1, Zenon DEF NewsDatesKnown
<1>1. CASE NewsKept
  BY <1>1, Zenon DEF NewsKept
<1>2. ASSUME NEW n \in News, NewsGone(n)
      PROVE  \A m \in News : row[m] # Nil /\ row'[m] # Nil /\ row[m].at # None => row'[m].at # None
  <2>1. row'[n] = Nil /\ \A m \in News \ {n} : row'[m] = row[m]
    BY <1>2, NewsRowAfter, Zenon DEF NewsGone
  <2>2. QED
    BY <2>1, Zenon
<1>3. ASSUME NEW n \in News, NewsStored(n)
      PROVE  \A m \in News : row[m] # Nil /\ row'[m] # Nil /\ row[m].at # None => row'[m].at # None
  <2>1. row'[n] = NewsRows!Data(put) /\ \A m \in News \ {n} : row'[m] = row[m]
    BY <1>3, NewsRowAfter, Zenon DEF NewsStored
  <2>2. Now # None
    BY NewsDatesAre DEF NewsShape
  <2>3. row[n] # Nil /\ row[n].at # None => put.at # None
    BY <1>0, <1>3, Zenon DEF NewsStored, NewsDated
  <2>4. put.at # None => NewsRows!Data(put).at # None
    BY <2>2, NewsDataKeeps
  <2>5. QED
    BY <2>1, <2>3, <2>4, Zenon
<1>4. CASE NewsTurned
  <2>1. call.id \in News /\ call.at \in NewsTimes /\ row[call.id] # Nil
    BY <1>4, Zenon DEF NewsTurned, NewsShape, NewsCallIs, NewsCalls
  <2>2. row'[call.id] = NewsRows!Set(call.id, call.act, call.at) /\ \A m \in News \ {call.id} : row'[m] = row[m]
    BY <1>4, <2>1, NewsRowAfter, Zenon DEF NewsTurned
  <2>3. row[call.id].at # None => call.at # None
    BY <1>0, <1>4, <2>1, Zenon DEF NewsTurned, NewsDated
  <2>4. row[call.id].at # None /\ call.at # None => NewsRows!Set(call.id, call.act, call.at).at # None
    BY <2>1, NewsSetKeeps, Zenon
  <2>5. QED
    BY <2>2, <2>3, <2>4, Zenon
<1>5. QED
  BY <1>1, <1>2, <1>3, <1>4, NewsRowsMove, Zenon

LEMMA NewsInvInit == ASSUME NewsRows!NewsAssumption, NewsRows!Init PROVE NewsInv
<1>1. Nil \in NewsIds /\ None \in NewsTimes /\ Empty \in Titles /\ Empty \in NewsRows!Slugs /\ Now \in NewsTimes
  BY NewsSlugOf, Zenon DEF NewsIds, NewsTimes, NewsRows!NewsAssumption
<1>2. ASSUME NEW n \in News, row[n] # Nil
      PROVE  /\ row[n] \in NewsWritten /\ row[n].at \in {None, Now} /\ row[n].pub = (row[n].status = "PUBLISHED")
             /\ (row[n].pub => row[n].at # None)
  <2>1. row[n] \in [status : {"DRAFT", "PUBLISHED"}, pub : BOOLEAN, at : {None, Now}, title : Titles \ {Empty},
                    slug : NewsRows!Slugs]
    BY <1>2, Zenon DEF NewsRows!Init
  <2>2. row[n].pub = (row[n].status = "PUBLISHED") /\ row[n].pub = (row[n].at # None)
    BY <1>2, Zenon DEF NewsRows!Init
  <2>3. PICK r : r = row[n]
    OBVIOUS
  <2>4. [status : {"DRAFT", "PUBLISHED"}, pub : BOOLEAN, at : {None, Now}, title : Titles \ {Empty},
         slug : NewsRows!Slugs] \subseteq NewsWritten
    BY <1>1, SMT DEF NewsWritten, NewsRows!Statuses
  <2>5. row[n].at \in {None, Now}
    BY <2>1
  <2>6. QED
    BY <2>1, <2>2, <2>4, <2>5, Zenon
<1>3. row \in [News -> NewsWritten \cup {Nil}] /\ cache = [n \in News |-> Nil]
  <2>1. \E S : row \in [News -> S]
    BY Zenon DEF NewsRows!Init
  <2>2. PICK S : row \in [News -> S]
    BY <2>1
  <2>3. \A n \in News : row[n] \in NewsWritten \cup {Nil}
    BY <1>2, Zenon
  <2>4. QED
    BY <2>2, <2>3, Zenon DEF NewsRows!Init
<1>4. NewsRowsAre
  <2>1. cache \in [News -> NewsWritten \cup {Nil}]
    BY <1>3, Zenon
  <2>2. QED
    BY <1>3, <2>1 DEF NewsRowsAre
<1>5. NewsRows!Values(Nil, Nil) \in NewsFields /\ NewsRows!Values(Nil, Nil).at = None
  <2>1. NewsRows!Values(Nil, Nil) \in NewsFields
    BY <1>1, NewsValuesAre
  <2>2. QED
    BY <2>1 DEF NewsRows!Values
<1>6. form = [open |-> FALSE, id |-> Nil, ready |-> FALSE, v |-> NewsRows!Values(Nil, Nil)]
  BY Zenon DEF NewsRows!Init
<1>7. NewsDialogIs
  <2>1. form \in NewsDialogs
    BY <1>1, <1>5, <1>6, Zenon DEF NewsDialogs
  <2>2. QED
    BY <1>6, <2>1 DEF NewsDialogIs
<1>8. NewsPutIs /\ put.at = None /\ put.pc = "idle"
  <2>1. put = NewsRows!Request("idle", Nil, "save")
    BY Zenon DEF NewsRows!Init, NewsRows!NoPut
  <2>2. put \in NewsPuts /\ put.pc = "idle"
    BY <1>1, <2>1, NewsNoPutIs
  <2>3. put.at = None
    BY <2>1 DEF NewsRows!Request
  <2>4. QED
    BY <2>2, <2>3 DEF NewsPutIs
<1>9. NewsCallIs /\ call.at = None /\ call.pc = "idle"
  <2>1. call = [pc |-> "idle", id |-> Nil, act |-> "draft", at |-> None]
    BY Zenon DEF NewsRows!Init, NewsRows!NoCall
  <2>2. call \in NewsCalls
    BY <1>1, <2>1, Zenon DEF NewsCalls, NewsActs
  <2>3. QED
    BY <2>1, <2>2 DEF NewsCallIs
<1>10. NewsCounted
  BY SMT DEF NewsRows!Init, NewsCounted, NewsRows!NewsAssumption
<1>11. NewsLate(None) /\ NewsLate(Now)
  BY <1>10, NewsReachIs, SMT DEF NewsLate, NewsRows!NewsAssumption
<1>12. NewsAllLate
  <2>1. \A n \in News : row[n] # Nil => NewsLate(row[n].at)
    BY <1>2, <1>11, Zenon
  <2>2. \A n \in News : cache[n] = Nil
    BY <1>3, Zenon
  <2>3. form.v.at = None
    BY <1>5, <1>6
  <2>4. QED
    BY <1>8, <1>9, <1>11, <2>1, <2>2, <2>3, Zenon DEF NewsAllLate
<1>13. NewsOneEach
  BY Zenon DEF NewsRows!Init, NewsOneEach
<1>14. NewsRows!FlagFollowsStatus
  BY <1>2, Zenon DEF NewsRows!FlagFollowsStatus
<1>15. NewsOwnFields
  <2>1. form.open = FALSE
    BY <1>6
  <2>2. QED
    BY <1>8, <2>1 DEF NewsOwnFields, NewsRows!WrittenFromItsItem
<1>16. NewsDatesKnown
  BY <1>8, <1>9 DEF NewsDatesKnown, NewsDated
<1>17. QED
  BY <1>4, <1>7, <1>8, <1>9, <1>10, <1>12, <1>13, <1>14, <1>15, <1>16 DEF NewsInv, NewsShape

LEMMA NewsInvGives ==
    ASSUME NewsRows!NewsAssumption, NewsInv
    PROVE  NewsRows!TypeOK /\ NewsRows!FlagFollowsStatus /\ NewsRows!WrittenFromItsItem
<1> USE DEF NewsInv
<1>1. \A x \in NewsTimes : NewsLate(x) => x \in NewsRows!Dates \cup {None}
  BY NewsDatesAre DEF NewsShape
<1>2. ASSUME NEW r \in NewsWritten, NewsLate(r.at) PROVE r \in NewsRows!Rows
  <2>1. r.at \in NewsRows!Dates \cup {None}
    BY <1>1, <1>2 DEF NewsWritten
  <2>2. QED
    BY <2>1, SMT DEF NewsWritten, NewsRows!Rows
<1>3. \A n \in News : row[n] \in NewsRows!Rows \cup {Nil} /\ cache[n] \in NewsRows!Rows \cup {Nil}
  BY <1>2, Zenon DEF NewsShape, NewsRowsAre, NewsAllLate
<1>4. row \in [News -> NewsRows!Rows \cup {Nil}] /\ cache \in [News -> NewsRows!Rows \cup {Nil}]
  BY <1>3, Zenon DEF NewsShape, NewsRowsAre
<1>5. QED
  BY <1>4, Zenon DEF NewsShape, NewsCounted, NewsOneEach, NewsOwnFields, NewsRows!TypeOK

LEMMA NewsInvStep ==
    ASSUME NewsRows!NewsAssumption, NewsInv, [NewsRows!Next]_(NewsRows!vars)
    PROVE  NewsInv' /\ NewsDateKept
<1>1. NewsShape'
  BY NewsRowsStep, NewsDialogStep, NewsPutStep, NewsCallStep, NewsCountStep DEF NewsInv, NewsShape
<1>2. QED
  BY <1>1, NewsLateStep, NewsOneEachStep, NewsFlagStep, NewsOwnStep, NewsKnownStep, NewsDateKeeps, Zenon DEF NewsInv

LEMMA NewsHolds ==
    NewsRows!NewsAssumption =>
        (NewsRows!Init /\ [][NewsRows!Next]_(NewsRows!vars) => []NewsRows!TypeOK /\ []NewsRows!FlagFollowsStatus /\
         []NewsRows!WrittenFromItsItem /\ NewsRows!DateStays)
<1> SUFFICES ASSUME NewsRows!NewsAssumption
             PROVE  NewsRows!Init /\ [][NewsRows!Next]_(NewsRows!vars) =>
                    []NewsRows!TypeOK /\ []NewsRows!FlagFollowsStatus /\ []NewsRows!WrittenFromItsItem /\
                        NewsRows!DateStays
  OBVIOUS
<1>1. NewsRows!Init => NewsInv
  BY NewsInvInit
<1>2. NewsInv /\ [NewsRows!Next]_(NewsRows!vars) => NewsInv' /\ NewsDateKept
  BY NewsInvStep
<1>3. NewsInv => NewsRows!TypeOK /\ NewsRows!FlagFollowsStatus /\ NewsRows!WrittenFromItsItem
  BY NewsInvGives
<1>4. NewsRows!DateStays <=> [][NewsDateKept]_(NewsRows!vars)
  BY PTL DEF NewsRows!DateStays, NewsDateKept
<1> HIDE DEF NewsDateKept
<1>5. QED
  BY <1>1, <1>2, <1>3, <1>4, PTL
-----------------------------------------------------------------------------
(***************************************************************************)
(* The page of the news: NewsPage.                                         *)
(***************************************************************************)
(* The cardinality the instance names is that of the library.              *)
LEMMA LeafCounts ==
    ASSUME NEW S
    PROVE  /\ NewsPage!Cardinality(S) = Cardinality(S)
           /\ NewsPage!IsFiniteSet(S) <=> IsFiniteSet(S)
BY DEF NewsPage!Cardinality, Cardinality, NewsPage!IsFiniteSet, IsFiniteSet

(* What an answer says when nothing changed since it was read.             *)
LeafFits(q, then, what) ==
    /\ q # NewsPage!Stats => DOMAIN what \subseteq News
    /\ then = turned =>
         IF q = NewsPage!Stats THEN \A c \in NewsPage!Cards : what[c] = NewsPage!Count(c)
           ELSE DOMAIN what = NewsPage!Found(q)

(* A query under way has no answer from before it was asked for.           *)
LeafGetIs(q) ==
    /\ asks[q].pc \in {"idle", "answer"} \cup (IF q = NewsPage!Stats THEN {"count"} ELSE {"asked"})
    /\ asks[q].pc = "count" => /\ asks[q].at \in due[q]..turned
                               /\ asks[q].cards = [c \in NewsPage!Cards |-> asks[q].cards[c]]
                               /\ asks[q].at = turned =>
                                    \A c \in NewsPage!Cards \ asks[q].left : asks[q].cards[c] = NewsPage!Count(c)
    /\ asks[q].pc = "answer" => asks[q].at \in due[q]..turned /\ LeafFits(q, asks[q].at, asks[q].what)

LeafGotIs(q) ==
    /\ due[q] \in 0..turned
    /\ held[q] # Nil => /\ held[q].at \in 0..turned /\ LeafFits(q, held[q].at, held[q].what)
                        /\ asks[q].pc = "idle" => held[q].at >= due[q]

LeafShape ==
    /\ state \in [News -> NewsPage!Statuses \cup {"NONE"}] /\ turned \in 0..MaxTurned
    /\ key \in Filters /\ leaf \in 1..(Cardinality(News) + 1)
    /\ asks = [q \in NewsPage!Queries |-> asks[q]]
    /\ held = [q \in NewsPage!Queries |-> held[q]]
    /\ due = [q \in NewsPage!Queries |-> due[q]]

LeafInv == LeafShape /\ \A q \in NewsPage!Queries : LeafGetIs(q) /\ LeafGotIs(q)

LEMMA LeafStatsIsNone ==
    ASSUME NewsPage!NewsPageAssumption
    PROVE  NewsPage!Stats \notin Filters /\ \A f \in Filters : f \in NewsPage!Queries /\ f # NewsPage!Stats
<1>1. \A f \in Filters : f[1] # "stats"
  BY LeafCounts, SMT DEF NewsPage!NewsPageAssumption, NewsPage!Statuses
<1>2. NewsPage!Stats[1] = "stats"
  BY DEF NewsPage!Stats
<1>3. QED
  BY <1>1, <1>2, Zenon DEF NewsPage!Queries

LEMMA LeafListsAre == ASSUME NewsPage!NewsPageAssumption PROVE /\ Cardinality(News) \in Nat
                                               /\ \A S : S \subseteq News => Cardinality(S) \in 0..Cardinality(News)
<1>1. \A S : S \subseteq News => Cardinality(S) \in Nat /\ Cardinality(S) <= Cardinality(News)
  BY LeafCounts, FS_Subset, FS_CardinalityType DEF NewsPage!NewsPageAssumption
<1>2. Cardinality(News) \in Nat
  BY LeafCounts, FS_CardinalityType DEF NewsPage!NewsPageAssumption
<1>3. QED
  BY <1>1, <1>2, SMT

LEMMA LeafDiv == ASSUME NEW t \in Nat, NEW p \in Nat \ {0}, t > p PROVE (t + p - 1) \div p \in 1..t
BY Z3

LEMMA LeafPagesOf ==
    ASSUME NewsPage!NewsPageAssumption, NEW t \in 0..Cardinality(News)
    PROVE  (IF t <= NewsPageSize THEN 1 ELSE (t + NewsPageSize - 1) \div NewsPageSize) \in 1..(Cardinality(News) + 1)
<1>1. Cardinality(News) \in Nat /\ NewsPageSize \in Nat \ {0}
  BY LeafCounts, LeafListsAre DEF NewsPage!NewsPageAssumption
<1>2. CASE t <= NewsPageSize
  BY <1>1, <1>2, SMT
<1>3. CASE ~(t <= NewsPageSize)
  <2>1. t \in Nat /\ t > NewsPageSize
    BY <1>1, <1>3, SMT
  <2>2. (t + NewsPageSize - 1) \div NewsPageSize \in 1..t
    BY <1>1, <2>1, LeafDiv
  <2>3. (t + NewsPageSize - 1) \div NewsPageSize \in 1..(Cardinality(News) + 1)
    BY <1>1, <2>2, SMT
  <2>4. QED
    BY <1>3, <2>3
<1>4. QED
  BY <1>2, <1>3

LEMMA LeafTotalIs ==
    ASSUME NewsPage!NewsPageAssumption, LeafInv, NEW f \in Filters
    PROVE  (IF held[f] = Nil THEN 0 ELSE Cardinality(DOMAIN held[f].what)) \in 0..Cardinality(News)
<1>1. CASE held[f] = Nil
  BY <1>1, LeafListsAre, SMT
<1>2. CASE held[f] # Nil
  <2>1. DOMAIN held[f].what \subseteq News
    BY <1>2, LeafStatsIsNone, Zenon DEF LeafInv, LeafGotIs, LeafFits
  <2>2. QED
    BY <1>2, <2>1, LeafListsAre
<1>3. QED
  BY <1>1, <1>2

LEMMA LeafPagesAre ==
    ASSUME NewsPage!NewsPageAssumption, LeafInv
    PROVE  NewsPage!TotalPages \in 1..(Cardinality(News) + 1)
BY LeafCounts, LeafPagesOf, LeafTotalIs DEF NewsPage!TotalPages, NewsPage!Total, LeafInv, LeafShape

LEMMA LeafAlike ==
    ASSUME NEW q \in NewsPage!Queries, LeafGetIs(q), LeafGotIs(q), UNCHANGED <<state, turned>>,
           asks'[q] = asks[q], held'[q] = held[q], due'[q] = due[q]
    PROVE  LeafGetIs(q)' /\ LeafGotIs(q)'
<1>1. \A c : NewsPage!Count(c)' = NewsPage!Count(c)
  BY LeafCounts, Zenon DEF NewsPage!Count, NewsPage!Found
<1>2. \A f : NewsPage!Found(f)' = NewsPage!Found(f)
  BY Zenon DEF NewsPage!Found
<1>3. QED
  BY <1>1, <1>2, Zenon DEF LeafGetIs, LeafGotIs, LeafFits

LEMMA LeafMoved ==
    ASSUME NEW q \in NewsPage!Queries, turned \in Nat, LeafGetIs(q), LeafGotIs(q), turned' = turned + 1,
           UNCHANGED <<asks, held, due>>
    PROVE  LeafGetIs(q)' /\ LeafGotIs(q)'
<1>1. /\ \A x \in 0..turned : x \in 0..turned' /\ x # turned'
      /\ due[q] \in Nat /\ due[q] \in 0..turned'
  BY SMT DEF LeafGotIs
<1>2. \A x \in due[q]..turned : x \in due[q]..turned' /\ x # turned'
  BY <1>1, SMT DEF LeafGotIs
<1>3. LeafGetIs(q)'
  BY <1>2, Zenon DEF LeafGetIs, LeafFits
<1>4. LeafGotIs(q)'
  BY <1>1, Zenon DEF LeafGotIs, LeafFits
<1>5. QED
  BY <1>3, <1>4

LEMMA LeafBegun ==
    ASSUME NewsPage!NewsPageAssumption, NEW q \in NewsPage!Queries, turned \in Nat, LeafGotIs(q),
           UNCHANGED <<state, turned>>,
           asks'[q] = NewsPage!Asked(q), held'[q] = held[q], due'[q] = turned
    PROVE  LeafGetIs(q)' /\ LeafGotIs(q)'
<1>1. \A c : NewsPage!Count(c)' = NewsPage!Count(c)
  BY LeafCounts, Zenon DEF NewsPage!Count, NewsPage!Found
<1>2. \A f : NewsPage!Found(f)' = NewsPage!Found(f)
  BY Zenon DEF NewsPage!Found
<1>3. turned \in 0..turned /\ turned \in turned..turned
  BY SMT
<1>4. LeafGotIs(q)'
  <2>1. asks'[q].pc # "idle"
    <3>1. CASE q = NewsPage!Stats
      BY <3>1 DEF NewsPage!Asked
    <3>2. CASE q # NewsPage!Stats
      BY <3>2 DEF NewsPage!Asked
    <3>3. QED
      BY <3>1, <3>2
  <2>2. QED
    BY <1>1, <1>2, <1>3, <2>1, Zenon DEF LeafGotIs, LeafFits
<1>5. LeafGetIs(q)'
  <2>1. CASE q = NewsPage!Stats
    <3>1. asks'[q] = [pc |-> "count", left |-> NewsPage!Cards, cards |-> [c \in NewsPage!Cards |-> 0], at |-> turned]
      BY <2>1, Zenon DEF NewsPage!Asked
    <3>2. asks'[q].pc = "count" /\ asks'[q].left = NewsPage!Cards /\ asks'[q].cards = [c \in NewsPage!Cards |-> 0] /\
            asks'[q].at = turned
      BY <3>1
    <3>3. "count" # "answer"
      OBVIOUS
    <3>4. [c \in NewsPage!Cards |-> 0] = [c \in NewsPage!Cards |-> [d \in NewsPage!Cards |-> 0][c]]
      BY SMT
    <3>5. asks'[q].cards = [c \in NewsPage!Cards |-> asks'[q].cards[c]]
      BY <3>2, <3>4, Zenon
    <3>6. QED
      BY <1>3, <2>1, <3>2, <3>3, <3>5, Zenon DEF LeafGetIs
  <2>2. CASE q # NewsPage!Stats
    <3>1. asks'[q].pc = "asked"
      BY <2>2 DEF NewsPage!Asked
    <3>2. "asked" # "count" /\ "asked" # "answer"
      OBVIOUS
    <3>3. QED
      BY <2>2, <3>1, <3>2, Zenon DEF LeafGetIs
  <2>3. QED
    BY <2>1, <2>2
<1>6. QED
  BY <1>4, <1>5

(* One query moves and the others stay.                                    *)
LEMMA LeafOneMoves ==
    ASSUME LeafInv, NEW q \in NewsPage!Queries, UNCHANGED <<state, turned>>, LeafGetIs(q)' /\ LeafGotIs(q)',
           \A o \in NewsPage!Queries \ {q} : asks'[o] = asks[o] /\ held'[o] = held[o] /\ due'[o] = due[o]
    PROVE  \A o \in NewsPage!Queries : LeafGetIs(o)' /\ LeafGotIs(o)'
<1>1. ASSUME NEW o \in NewsPage!Queries \ {q} PROVE LeafGetIs(o)' /\ LeafGotIs(o)'
  BY LeafAlike, Zenon DEF LeafInv
<1>2. QED
  BY <1>1, Zenon

LEMMA LeafExcept ==
    ASSUME NEW S, NEW f, f = [s \in S |-> f[s]], NEW a \in S, NEW x, NEW g, g = [f EXCEPT ![a] = x]
    PROVE  g = [s \in S |-> g[s]] /\ g[a] = x /\ \A b \in S \ {a} : g[b] = f[b]
BY SMT

LEMMA LeafShapeStep == ASSUME NewsPage!NewsPageAssumption, LeafInv, [NewsPage!Next]_(NewsPage!vars) PROVE LeafShape'
<1> USE DEF LeafShape, LeafInv
<1>1. Cardinality(News) \in Nat /\ NewsPage!TotalPages \in 1..(Cardinality(News) + 1)
  BY LeafListsAre, LeafPagesAre
<1>2. key' \in Filters /\ leaf' \in 1..(Cardinality(News) + 1)
  <2>1. ASSUME NEW f \in Filters, NewsPage!UpdateFilter(f)
        PROVE  key' \in Filters /\ leaf' \in 1..(Cardinality(News) + 1)
    BY <1>1, <2>1, SMT DEF NewsPage!UpdateFilter
  <2>2. ASSUME NEW p \in 0..(NewsPage!TotalPages + 1), NewsPage!Turn(p)
        PROVE  key' \in Filters /\ leaf' \in 1..(Cardinality(News) + 1)
    <3>1. leaf' = p /\ key' = key
      BY <2>2, Zenon DEF NewsPage!Turn
    <3>a. (p = leaf - 1 /\ leaf > 1) \/ (p = leaf + 1 /\ leaf < NewsPage!TotalPages)
      BY <2>2, Zenon DEF NewsPage!Turn
    <3>2. QED
      BY <1>1, <3>1, <3>a, SMT
  <2>3. CASE UNCHANGED <<key, leaf>>
    BY <2>3, Zenon
  <2>4. QED
    BY <2>1, <2>2, <2>3, Zenon DEF NewsPage!Next, NewsPage!OthersStore, NewsPage!CountList, NewsPage!Read, NewsPage!Ask,
         NewsPage!Answered, NewsPage!Failed, NewsPage!CountOne, NewsPage!Send, NewsPage!Announced, NewsPage!CallFailed,
         NewsPage!vars
<1>3. state' \in [News -> NewsPage!Statuses \cup {"NONE"}] /\ turned' \in 0..MaxTurned
  <2>1. ASSUME NEW n \in News, NEW s \in NewsPage!Statuses \cup {"NONE"}, NewsPage!Store(n, s)
        PROVE state' \in [News -> NewsPage!Statuses \cup {"NONE"}] /\ turned' \in 0..MaxTurned
    <3>1. turned' = turned + 1 /\ turned < MaxTurned /\ state' = [state EXCEPT ![n] = s]
      BY <2>1, Zenon DEF NewsPage!Store
    <3>2. turned' \in 0..MaxTurned
      BY LeafCounts, <3>1, SMT DEF NewsPage!NewsPageAssumption
    <3>3. state' \in [News -> NewsPage!Statuses \cup {"NONE"}]
      BY <3>1, SMT
    <3>4. QED
      BY <3>2, <3>3
  <2>2. CASE UNCHANGED <<state, turned>>
    BY <2>2, Zenon
  <2>3. QED
    BY <2>1, <2>2, Zenon DEF NewsPage!Next, NewsPage!OthersStore, NewsPage!CountList, NewsPage!UpdateFilter,
         NewsPage!Turn, NewsPage!Read, NewsPage!Ask, NewsPage!Answered, NewsPage!Failed, NewsPage!CountOne,
         NewsPage!Send, NewsPage!Announced, NewsPage!CallFailed, NewsPage!vars
<1>4. asks' = [q \in NewsPage!Queries |-> asks'[q]]
  <2>1. ASSUME NEW q \in NewsPage!Queries, NEW x, asks' = [asks EXCEPT ![q] = x]
        PROVE  asks' = [o \in NewsPage!Queries |-> asks'[o]]
    BY <2>1, LeafExcept
  <2>2. CASE \E c \in Callers : NewsPage!Announced(c)
    <3>1. asks' = [q \in NewsPage!Queries |-> IF q \in NewsPage!Invalidated THEN NewsPage!Asked(q) ELSE asks[q]]
      BY <2>2, Zenon DEF NewsPage!Announced
    <3>2. QED
      BY <3>1, Zenon
  <2>3. CASE UNCHANGED asks
    BY <2>3, Zenon
  <2>4. NewsPage!Stats \in NewsPage!Queries /\ Filters \subseteq NewsPage!Queries
    BY DEF NewsPage!Queries
  <2>5. QED
    BY <2>1, <2>2, <2>3, <2>4, Zenon DEF NewsPage!Next, NewsPage!OthersStore, NewsPage!CountList, NewsPage!UpdateFilter,
         NewsPage!Show, NewsPage!Turn, NewsPage!Read, NewsPage!Ask, NewsPage!Answered, NewsPage!Failed,
         NewsPage!CountOne, NewsPage!Send, NewsPage!CallFailed, NewsPage!vars
<1>5. held' = [q \in NewsPage!Queries |-> held'[q]]
  <2>1. ASSUME NEW q \in NewsPage!Queries, NEW x, held' = [held EXCEPT ![q] = x]
        PROVE  held' = [o \in NewsPage!Queries |-> held'[o]]
    BY <2>1, LeafExcept
  <2>2. CASE UNCHANGED held
    BY <2>2, Zenon
  <2>3. QED
    BY <2>1, <2>2, Zenon DEF NewsPage!Next, NewsPage!OthersStore, NewsPage!CountList, NewsPage!UpdateFilter,
         NewsPage!Turn, NewsPage!Read, NewsPage!Ask, NewsPage!Answered, NewsPage!Failed, NewsPage!CountOne,
         NewsPage!Send, NewsPage!Announced, NewsPage!CallFailed, NewsPage!vars
<1>6. due' = [q \in NewsPage!Queries |-> due'[q]]
  <2>1. ASSUME NEW q \in NewsPage!Queries, NEW x, due' = [due EXCEPT ![q] = x]
        PROVE  due' = [o \in NewsPage!Queries |-> due'[o]]
    BY <2>1, LeafExcept
  <2>2. CASE \E c \in Callers : NewsPage!Announced(c)
    <3>1. due' = [q \in NewsPage!Queries |-> IF q \in {key, NewsPage!Stats} THEN turned ELSE due[q]]
      BY <2>2, Zenon DEF NewsPage!Announced
    <3>2. QED
      BY <3>1, Zenon
  <2>3. CASE UNCHANGED due
    BY <2>3, Zenon
  <2>4. Filters \subseteq NewsPage!Queries
    BY DEF NewsPage!Queries
  <2>5. QED
    BY <2>1, <2>2, <2>3, <2>4, Zenon DEF NewsPage!Next, NewsPage!OthersStore, NewsPage!CountList, NewsPage!UpdateFilter,
         NewsPage!Show, NewsPage!Turn, NewsPage!Read, NewsPage!Ask, NewsPage!Answered, NewsPage!Failed,
         NewsPage!CountOne, NewsPage!Send, NewsPage!CallFailed, NewsPage!vars
<1>7. QED
  BY <1>2, <1>3, <1>4, <1>5, <1>6

LEMMA LeafShowStep ==
    ASSUME NewsPage!NewsPageAssumption, LeafInv, NEW q \in NewsPage!Queries, NewsPage!Show(q),
           UNCHANGED <<state, turned, held>>
    PROVE  \A o \in NewsPage!Queries : LeafGetIs(o)' /\ LeafGotIs(o)'
<1>1. /\ turned \in Nat /\ asks = [o \in NewsPage!Queries |-> asks[o]] /\ due = [o \in NewsPage!Queries |-> due[o]]
      /\ asks' = [asks EXCEPT ![q] = IF NewsPage!Free(q) THEN NewsPage!Asked(q) ELSE asks[q]]
      /\ due' = [due EXCEPT ![q] = IF NewsPage!Free(q) THEN turned ELSE due[q]]
  BY SMT DEF LeafInv, LeafShape, NewsPage!Show
<1>2. asks'[q] = (IF NewsPage!Free(q) THEN NewsPage!Asked(q) ELSE asks[q]) /\
        \A o \in NewsPage!Queries \ {q} : asks'[o] = asks[o]
  BY <1>1, LeafExcept
<1>3. due'[q] = (IF NewsPage!Free(q) THEN turned ELSE due[q]) /\ \A o \in NewsPage!Queries \ {q} : due'[o] = due[o]
  BY <1>1, LeafExcept
<1>4. LeafGetIs(q)' /\ LeafGotIs(q)'
  <2>1. CASE NewsPage!Free(q)
    <3>1. asks'[q] = NewsPage!Asked(q) /\ due'[q] = turned /\ held'[q] = held[q]
      BY <1>2, <1>3, <2>1, Zenon
    <3>2. QED
      BY <1>1, <3>1, LeafBegun DEF LeafInv
  <2>2. CASE ~NewsPage!Free(q)
    <3>1. asks'[q] = asks[q] /\ due'[q] = due[q] /\ held'[q] = held[q]
      BY <1>2, <1>3, <2>2, Zenon
    <3>2. QED
      BY <3>1, LeafAlike DEF LeafInv
  <2>3. QED
    BY <2>1, <2>2
<1>5. \A o \in NewsPage!Queries \ {q} : asks'[o] = asks[o] /\ held'[o] = held[o] /\ due'[o] = due[o]
  BY <1>2, <1>3, Zenon
<1>6. QED
  BY <1>4, <1>5, LeafOneMoves

(* Only what is under way for q changes.                                   *)
LEMMA LeafGetMoves ==
    ASSUME NewsPage!NewsPageAssumption, LeafInv, NEW q \in NewsPage!Queries, NEW x, asks' = [asks EXCEPT ![q] = x],
           UNCHANGED <<state, turned>>
    PROVE  /\ asks'[q] = x /\ \A o \in NewsPage!Queries \ {q} : asks'[o] = asks[o]
           /\ \A c : NewsPage!Count(c)' = NewsPage!Count(c)
           /\ \A f : NewsPage!Found(f)' = NewsPage!Found(f)
<1>1. asks'[q] = x /\ \A o \in NewsPage!Queries \ {q} : asks'[o] = asks[o]
  <2>1. asks = [o \in NewsPage!Queries |-> asks[o]]
    BY DEF LeafInv, LeafShape
  <2>2. QED
    BY <2>1, LeafExcept
<1>2. QED
  BY LeafCounts, <1>1, Zenon DEF NewsPage!Count, NewsPage!Found

LEMMA LeafComes ==
    ASSUME NewsPage!NewsPageAssumption, LeafInv, NEW q \in NewsPage!Queries, NEW x, asks' = [asks EXCEPT ![q] = x],
           UNCHANGED <<state, turned, held, due>>,
           x.pc = "answer", x.at \in due[q]..turned, LeafFits(q, x.at, x.what)
    PROVE  \A o \in NewsPage!Queries : LeafGetIs(o)' /\ LeafGotIs(o)'
<1>1. /\ asks'[q] = x /\ \A o \in NewsPage!Queries \ {q} : asks'[o] = asks[o]
      /\ \A c : NewsPage!Count(c)' = NewsPage!Count(c)
      /\ \A f : NewsPage!Found(f)' = NewsPage!Found(f)
  BY LeafGetMoves
<1>2. LeafGetIs(q)'
  <2>1. "answer" # "count"
    OBVIOUS
  <2>2. QED
    BY <1>1, <2>1, Zenon DEF LeafGetIs, LeafFits
<1>3. LeafGotIs(q)'
  <2>1. "answer" # "idle"
    OBVIOUS
  <2>2. QED
    BY <1>1, <2>1, Zenon DEF LeafGotIs, LeafFits, LeafInv
<1>4. QED
  BY <1>1, <1>2, <1>3, LeafOneMoves, Zenon

LEMMA LeafQueriesStep ==
    ASSUME NewsPage!NewsPageAssumption, LeafInv, [NewsPage!Next]_(NewsPage!vars)
    PROVE  \A q \in NewsPage!Queries : LeafGetIs(q)' /\ LeafGotIs(q)'
<1>0. /\ turned \in Nat /\ turned \in 0..turned /\ key \in Filters /\ key \in NewsPage!Queries /\
           NewsPage!Stats \in NewsPage!Queries
      /\ \A f \in Filters : f \in NewsPage!Queries /\ f # NewsPage!Stats
      /\ \A q \in NewsPage!Queries : due[q] \in 0..turned /\ turned \in due[q]..turned
  <2>1. turned \in Nat /\ key \in Filters /\ \A q \in NewsPage!Queries : due[q] \in 0..turned
    BY SMT DEF LeafInv, LeafShape, LeafGotIs
  <2>2. turned \in 0..turned /\ \A q \in NewsPage!Queries : turned \in due[q]..turned
    BY <2>1, SMT
  <2>3. QED
    BY <2>1, <2>2, LeafStatsIsNone, Zenon DEF NewsPage!Queries
<1>1. ASSUME turned' = turned + 1, UNCHANGED <<asks, held, due>>
      PROVE  \A q \in NewsPage!Queries : LeafGetIs(q)' /\ LeafGotIs(q)'
  BY <1>0, <1>1, LeafMoved DEF LeafInv
<1>2. CASE UNCHANGED <<state, turned, asks, held, due>>
  BY <1>2, LeafAlike, Zenon DEF LeafInv
<1>3. ASSUME NEW f \in Filters, NewsPage!UpdateFilter(f)
      PROVE  \A q \in NewsPage!Queries : LeafGetIs(q)' /\ LeafGotIs(q)'
  <2>1. NewsPage!Show(f) \/ UNCHANGED <<asks, due>>
    BY <1>3, Zenon DEF NewsPage!UpdateFilter
  <2>2. UNCHANGED <<state, turned, held>>
    BY <1>3, Zenon DEF NewsPage!UpdateFilter
  <2>3. QED
    BY <1>0, <1>2, <2>1, <2>2, LeafShowStep
<1>4. ASSUME NEW q \in NewsPage!Queries, NewsPage!Ask(q)
      PROVE  \A o \in NewsPage!Queries : LeafGetIs(o)' /\ LeafGotIs(o)'
  BY <1>4, LeafShowStep, Zenon DEF NewsPage!Ask
<1>5. ASSUME NEW f \in Filters, NewsPage!Read(f) PROVE \A q \in NewsPage!Queries : LeafGetIs(q)' /\ LeafGotIs(q)'
  <2> DEFINE x == [pc |-> "answer", at |-> turned, what |-> [n \in NewsPage!Found(f) |-> state[n]]]
  <2>1. asks' = [asks EXCEPT ![f] = x] /\ UNCHANGED <<state, turned, held, due>>
    BY <1>5, Zenon DEF NewsPage!Read
  <2>2. x.pc = "answer" /\ x.at = turned /\ DOMAIN x.what = NewsPage!Found(f)
    OBVIOUS
  <2>3. NewsPage!Found(f) \subseteq News
    BY DEF NewsPage!Found
  <2>4. LeafFits(f, x.at, x.what)
    BY <1>0, <2>2, <2>3, Zenon DEF LeafFits
  <2> HIDE DEF x
  <2>5. QED
    BY <1>0, <2>1, <2>2, <2>4, LeafComes
<1>6. CASE NewsPage!CountList
  <2> DEFINE x == [pc |-> "answer", at |-> turned, what |-> [c \in NewsPage!Cards |-> NewsPage!Count(c)]]
  <2>1. asks' = [asks EXCEPT ![NewsPage!Stats] = x] /\ UNCHANGED <<state, turned, held, due>>
    BY <1>6, Zenon DEF NewsPage!CountList
  <2>2. x.pc = "answer" /\ x.at = turned /\ \A c \in NewsPage!Cards : x.what[c] = NewsPage!Count(c)
    OBVIOUS
  <2>3. LeafFits(NewsPage!Stats, x.at, x.what)
    BY <2>2, Zenon DEF LeafFits
  <2> HIDE DEF x
  <2>4. QED
    BY <1>0, <2>1, <2>2, <2>3, LeafComes
<1>7. ASSUME NEW c \in NewsPage!Cards, NewsPage!CountOne(c)
      PROVE  \A q \in NewsPage!Queries : LeafGetIs(q)' /\ LeafGotIs(q)'
  <2>1. PICK g : g = asks[NewsPage!Stats]
    OBVIOUS
  <2>2. /\ g.pc = "count" /\ g.at \in due[NewsPage!Stats]..turned /\ g.cards = [d \in NewsPage!Cards |-> g.cards[d]]
        /\ g.at = turned => \A d \in NewsPage!Cards \ g.left : g.cards[d] = NewsPage!Count(d)
    BY <1>0, <1>7, <2>1, Zenon DEF NewsPage!CountOne, LeafInv, LeafGetIs
  <2>3. PICK left : left = g.left \ {c}
    OBVIOUS
  <2>4. PICK cards : cards = [g.cards EXCEPT ![c] = NewsPage!Count(c)]
    OBVIOUS
  <2>5. cards = [d \in NewsPage!Cards |-> cards[d]] /\ cards[c] = NewsPage!Count(c) /\
          \A d \in NewsPage!Cards \ {c} : cards[d] = g.cards[d]
    BY <2>2, <2>4, LeafExcept
  <2>6. g.at = turned => \A d \in NewsPage!Cards \ left : cards[d] = NewsPage!Count(d)
    BY <2>2, <2>3, <2>5, Zenon
  <2>7. UNCHANGED <<state, turned, held, due>>
    BY <1>7, Zenon DEF NewsPage!CountOne
  <2>8. CASE left # {}
    <3> DEFINE x == [pc |-> "count", left |-> left, cards |-> cards, at |-> g.at]
    <3>1. asks' = [asks EXCEPT ![NewsPage!Stats] = x]
      BY <1>7, <2>1, <2>3, <2>4, <2>8, Zenon DEF NewsPage!CountOne
    <3>2. x.pc = "count" /\ x.left = left /\ x.cards = cards /\ x.at = g.at
      OBVIOUS
    <3> HIDE DEF x
    <3>3. /\ asks'[NewsPage!Stats] = x /\ \A o \in NewsPage!Queries \ {NewsPage!Stats} : asks'[o] = asks[o]
          /\ \A d : NewsPage!Count(d)' = NewsPage!Count(d)
          /\ \A f : NewsPage!Found(f)' = NewsPage!Found(f)
      BY <1>0, <2>7, <3>1, LeafGetMoves
    <3>4. "count" # "answer" /\ "count" # "idle"
      OBVIOUS
    <3>5. LeafGetIs(NewsPage!Stats)'
      BY <2>2, <2>5, <2>6, <2>7, <3>2, <3>3, <3>4, Zenon DEF LeafGetIs
    <3>6. LeafGotIs(NewsPage!Stats)'
      BY <1>0, <2>7, <3>2, <3>3, <3>4, Zenon DEF LeafGotIs, LeafFits, LeafInv
    <3>7. QED
      BY <1>0, <2>7, <3>3, <3>5, <3>6, LeafOneMoves, Zenon
  <2>9. CASE left = {}
    <3> DEFINE x == [pc |-> "answer", at |-> g.at, what |-> cards]
    <3>1. asks' = [asks EXCEPT ![NewsPage!Stats] = x]
      BY <1>7, <2>1, <2>3, <2>4, <2>9, Zenon DEF NewsPage!CountOne
    <3>2. x.pc = "answer" /\ x.at = g.at /\ x.what = cards
      OBVIOUS
    <3>3. LeafFits(NewsPage!Stats, x.at, x.what)
      BY <2>6, <2>9, <3>2, Zenon DEF LeafFits
    <3> HIDE DEF x
    <3>4. x.at \in due[NewsPage!Stats]..turned
      BY <2>2, <3>2, Zenon
    <3>5. QED
      BY <1>0, <2>7, <3>1, <3>2, <3>3, <3>4, LeafComes
  <2>10. QED
    BY <2>8, <2>9
<1>8. ASSUME NEW q \in NewsPage!Queries, NewsPage!Answered(q)
      PROVE  \A o \in NewsPage!Queries : LeafGetIs(o)' /\ LeafGotIs(o)'
  <2>1. /\ asks[q].pc = "answer" /\ asks' = [asks EXCEPT ![q] = NewsPage!Idle] /\ UNCHANGED <<state, turned, due>>
        /\ held' = [held EXCEPT ![q] = [what |-> asks[q].what, at |-> asks[q].at]]
    BY <1>8, Zenon DEF NewsPage!Answered
  <2>2. PICK x : x = [what |-> asks[q].what, at |-> asks[q].at]
    OBVIOUS
  <2>3. x.what = asks[q].what /\ x.at = asks[q].at
    BY <2>2
  <2>4. held'[q] = x /\ \A o \in NewsPage!Queries \ {q} : held'[o] = held[o]
    <3>1. held = [o \in NewsPage!Queries |-> held[o]] /\ held' = [held EXCEPT ![q] = x]
      BY <2>1, <2>2 DEF LeafInv, LeafShape
    <3>2. QED
      BY <3>1, LeafExcept
  <2>5. /\ asks'[q] = NewsPage!Idle /\ \A o \in NewsPage!Queries \ {q} : asks'[o] = asks[o]
        /\ \A d : NewsPage!Count(d)' = NewsPage!Count(d)
        /\ \A f : NewsPage!Found(f)' = NewsPage!Found(f)
    BY <2>1, LeafGetMoves
  <2>6. NewsPage!Idle.pc = "idle" /\ "idle" # "count" /\ "idle" # "answer"
    BY DEF NewsPage!Idle
  <2>7. asks[q].at \in due[q]..turned /\ LeafFits(q, asks[q].at, asks[q].what)
    BY <2>1, Zenon DEF LeafInv, LeafGetIs
  <2>8. asks[q].at \in 0..turned /\ asks[q].at >= due[q]
    BY <1>0, <2>7, SMT
  <2>9. LeafGetIs(q)'
    BY <2>5, <2>6, Zenon DEF LeafGetIs
  <2>10. LeafGotIs(q)'
    BY <1>0, <2>1, <2>3, <2>4, <2>5, <2>7, <2>8, Zenon DEF LeafGotIs, LeafFits
  <2>11. QED
    BY <2>1, <2>4, <2>5, <2>9, <2>10, LeafOneMoves, Zenon
<1>9. ASSUME NEW q \in NewsPage!Queries, NewsPage!Failed(q)
      PROVE  \A o \in NewsPage!Queries : LeafGetIs(o)' /\ LeafGotIs(o)'
  <2>1. asks' = [asks EXCEPT ![q] = NewsPage!Idle] /\ due' = [due EXCEPT ![q] = 0] /\ UNCHANGED <<state, turned, held>>
    BY <1>9, Zenon DEF NewsPage!Failed
  <2>2. due'[q] = 0 /\ \A o \in NewsPage!Queries \ {q} : due'[o] = due[o]
    <3>1. due = [o \in NewsPage!Queries |-> due[o]]
      BY DEF LeafInv, LeafShape
    <3>2. QED
      BY <2>1, <3>1, LeafExcept
  <2>3. /\ asks'[q] = NewsPage!Idle /\ \A o \in NewsPage!Queries \ {q} : asks'[o] = asks[o]
        /\ \A d : NewsPage!Count(d)' = NewsPage!Count(d)
        /\ \A f : NewsPage!Found(f)' = NewsPage!Found(f)
    BY <2>1, LeafGetMoves
  <2>4. NewsPage!Idle.pc = "idle" /\ "idle" # "count" /\ "idle" # "answer"
    BY DEF NewsPage!Idle
  <2>5. LeafGetIs(q)'
    BY <2>3, <2>4, Zenon DEF LeafGetIs
  <2>6. 0 \in 0..turned /\ (held[q] # Nil => held[q].at >= 0)
    <3>1. held[q] # Nil => held[q].at \in 0..turned
      BY Zenon DEF LeafInv, LeafGotIs
    <3>2. QED
      BY <1>0, <3>1, SMT
  <2>7. LeafGotIs(q)'
    BY <2>1, <2>2, <2>3, <2>6, Zenon DEF LeafInv, LeafGotIs, LeafFits
  <2>8. QED
    BY <2>1, <2>2, <2>3, <2>5, <2>7, LeafOneMoves, Zenon
<1>10. ASSUME NEW c \in Callers, NewsPage!Announced(c) PROVE \A q \in NewsPage!Queries : LeafGetIs(q)' /\ LeafGotIs(q)'
  <2>1. /\ asks' = [q \in NewsPage!Queries |-> IF q \in {key, NewsPage!Stats} THEN NewsPage!Asked(q) ELSE asks[q]]
        /\ due' = [q \in NewsPage!Queries |-> IF q \in {key, NewsPage!Stats} THEN turned ELSE due[q]]
        /\ UNCHANGED <<state, turned, held>>
    BY <1>10, Zenon DEF NewsPage!Announced, NewsPage!Invalidated
  <2>2. ASSUME NEW q \in NewsPage!Queries PROVE LeafGetIs(q)' /\ LeafGotIs(q)'
    <3>1. CASE q \in {key, NewsPage!Stats}
      <4>1. asks'[q] = NewsPage!Asked(q) /\ due'[q] = turned /\ held'[q] = held[q]
        BY <2>1, <3>1, Zenon
      <4>2. QED
        BY <1>0, <2>1, <4>1, LeafBegun DEF LeafInv
    <3>2. CASE q \notin {key, NewsPage!Stats}
      <4>1. asks'[q] = asks[q] /\ due'[q] = due[q] /\ held'[q] = held[q]
        BY <2>1, <3>2, Zenon
      <4>2. QED
        BY <2>1, <4>1, LeafAlike DEF LeafInv
    <3>3. QED
      BY <3>1, <3>2
  <2>3. QED
    BY <2>2
<1>11. CASE NewsPage!OthersStore \/ \E c \in Callers : NewsPage!Send(c)
  <2>1. UNCHANGED <<asks, held, due>> /\ (turned' = turned + 1 \/ UNCHANGED <<state, turned>>)
    BY <1>11, Zenon DEF NewsPage!OthersStore, NewsPage!Send, NewsPage!Store
  <2>2. QED
    BY <1>1, <1>2, <2>1, Zenon
<1>12. QED
  BY <1>2, <1>3, <1>4, <1>5, <1>6, <1>7, <1>8, <1>9, <1>10, <1>11, Zenon DEF NewsPage!Next, NewsPage!Turn,
       NewsPage!CallFailed, NewsPage!vars

LEMMA LeafInvInit == ASSUME NewsPage!NewsPageAssumption, NewsPage!Init PROVE LeafInv
<1>1. Cardinality(News) \in Nat
  BY LeafListsAre
<1>2. LeafShape
  <2>1. key \in Filters /\ leaf \in 1..(Cardinality(News) + 1) /\ turned \in 0..MaxTurned
    BY LeafCounts, <1>1, SMT DEF NewsPage!Init, NewsPage!NewsPageAssumption
  <2>2. QED
    BY <2>1, Zenon DEF NewsPage!Init, LeafShape
<1>3. ASSUME NEW q \in NewsPage!Queries PROVE LeafGetIs(q) /\ LeafGotIs(q)
  <2>1. turned = 0 /\ due[q] = 0 /\ held[q] = Nil
    BY Zenon DEF NewsPage!Init
  <2>2. 0 \in 0..0
    BY SMT
  <2>3. LeafGotIs(q)
    BY <2>1, <2>2, Zenon DEF LeafGotIs
  <2>4. asks[q] = NewsPage!Asked(q) \/ asks[q] = NewsPage!Idle
    BY Zenon DEF NewsPage!Init
  <2>5. CASE asks[q] = NewsPage!Idle
    <3>1. asks[q].pc = "idle" /\ "idle" # "count" /\ "idle" # "answer"
      BY <2>5 DEF NewsPage!Idle
    <3>2. QED
      BY <2>3, <3>1, Zenon DEF LeafGetIs
  <2>6. CASE asks[q] = NewsPage!Asked(q) /\ q = NewsPage!Stats
    <3>1. asks[q].pc = "count" /\ asks[q].left = NewsPage!Cards /\ asks[q].cards = [c \in NewsPage!Cards |-> 0] /\
            asks[q].at = 0
      BY <2>1, <2>6 DEF NewsPage!Asked
    <3>2. "count" # "answer"
      OBVIOUS
    <3>3. [c \in NewsPage!Cards |-> 0] = [c \in NewsPage!Cards |-> [d \in NewsPage!Cards |-> 0][c]]
      BY SMT
    <3>4. asks[q].cards = [c \in NewsPage!Cards |-> asks[q].cards[c]]
      BY <3>1, <3>3, Zenon
    <3>5. QED
      BY <2>1, <2>2, <2>3, <2>6, <3>1, <3>2, <3>4, Zenon DEF LeafGetIs
  <2>7. CASE asks[q] = NewsPage!Asked(q) /\ q # NewsPage!Stats
    <3>1. asks[q].pc = "asked" /\ "asked" # "count" /\ "asked" # "answer"
      BY <2>7 DEF NewsPage!Asked
    <3>2. QED
      BY <2>3, <2>7, <3>1, Zenon DEF LeafGetIs
  <2>8. QED
    BY <2>4, <2>5, <2>6, <2>7
<1>4. QED
  BY <1>2, <1>3 DEF LeafInv

LEMMA LeafInvGives ==
    ASSUME NewsPage!NewsPageAssumption, LeafInv
    PROVE  NewsPage!TypeOK /\ NewsPage!CardCountsItsList /\ NewsPage!OwnChangeShown
<1>1. NewsPage!TypeOK
  BY LeafCounts, Zenon DEF LeafInv, LeafShape, LeafGetIs, LeafGotIs, NewsPage!TypeOK
<1>2. NewsPage!OwnChangeShown
  BY Zenon DEF LeafInv, LeafGotIs, NewsPage!OwnChangeShown
<1>3. NewsPage!CardCountsItsList
  <2>1. SUFFICES ASSUME NEW f \in Filters, ~f[2], held[NewsPage!Stats] # Nil, held[f] # Nil,
                            held[NewsPage!Stats].at = turned, held[f].at = turned
                 PROVE  held[NewsPage!Stats].what[f[1]] = Cardinality(DOMAIN held[f].what)
    BY LeafCounts, Zenon DEF NewsPage!CardCountsItsList
  <2>2. f = <<f[1], FALSE>>
    <3>1. f \in (NewsPage!Statuses \cup {"ALL"}) \X BOOLEAN
      BY LeafCounts DEF NewsPage!NewsPageAssumption
    <3>2. f = <<f[1], f[2]>> /\ f[2] \in BOOLEAN
      BY <3>1
    <3>3. f[2] = FALSE
      BY <2>1, <3>2
    <3>4. QED
      BY <3>2, <3>3
  <2>3. f[1] \in NewsPage!Cards /\ f \in NewsPage!Queries /\ f # NewsPage!Stats /\ NewsPage!Stats \in NewsPage!Queries
    BY LeafStatsIsNone, Zenon DEF NewsPage!Cards, NewsPage!Queries
  <2>4. held[NewsPage!Stats].what[f[1]] = NewsPage!Count(f[1])
    BY <2>1, <2>3, Zenon DEF LeafInv, LeafGotIs, LeafFits
  <2>5. DOMAIN held[f].what = NewsPage!Found(f)
    BY <2>1, <2>3, Zenon DEF LeafInv, LeafGotIs, LeafFits
  <2>6. NewsPage!Count(f[1]) = Cardinality(NewsPage!Found(f))
    BY LeafCounts, <2>2, Zenon DEF NewsPage!Count
  <2>7. QED
    BY <2>4, <2>5, <2>6
<1>4. QED
  BY <1>1, <1>2, <1>3

LeafStrands == held' = held /\ held[key] # Nil /\ leaf <= NewsPage!TotalPages => leaf' <= NewsPage!TotalPages'

LEMMA LeafStrandsStep ==
    ASSUME NewsPage!NewsPageAssumption, LeafInv, LeafInv', [NewsPage!Next]_(NewsPage!vars)
    PROVE  LeafStrands
<1> SUFFICES ASSUME held' = held, leaf <= NewsPage!TotalPages PROVE leaf' <= NewsPage!TotalPages'
  BY Zenon DEF LeafStrands
<1>1. NewsPage!TotalPages \in Nat /\ NewsPage!TotalPages' \in Nat /\ 1 <= NewsPage!TotalPages' /\ leaf \in Nat
  <2>1. key' \in Filters
    BY Zenon DEF LeafInv, LeafShape
  <2>2. NewsPage!Total' \in 0..Cardinality(News)
    BY LeafCounts, <2>1, LeafTotalIs DEF NewsPage!Total
  <2>3. NewsPage!TotalPages' \in 1..(Cardinality(News) + 1)
    BY <2>2, LeafPagesOf DEF NewsPage!TotalPages
  <2>4. QED
    BY <2>3, LeafPagesAre, LeafListsAre, SMT DEF LeafInv, LeafShape
<1>2. key' = key => NewsPage!TotalPages' = NewsPage!TotalPages
  BY LeafCounts, Zenon DEF NewsPage!TotalPages, NewsPage!Total
<1>3. ASSUME NEW f \in Filters, NewsPage!UpdateFilter(f) PROVE leaf' <= NewsPage!TotalPages'
  <2>1. leaf' = 1
    BY <1>3, Zenon DEF NewsPage!UpdateFilter
  <2>2. QED
    BY <1>1, <2>1
<1>4. ASSUME NEW p, NewsPage!Turn(p) PROVE leaf' <= NewsPage!TotalPages'
  <2>1. leaf' = p /\ key' = key /\ (p = leaf - 1 \/ (p = leaf + 1 /\ leaf < NewsPage!TotalPages))
    BY <1>4, Zenon DEF NewsPage!Turn
  <2>2. p <= NewsPage!TotalPages
    BY <1>1, <2>1, SMT
  <2>3. QED
    BY <1>2, <2>1, <2>2, Zenon
<1>5. CASE UNCHANGED <<key, leaf>>
  BY <1>2, <1>5, Zenon
<1>6. QED
  BY <1>3, <1>4, <1>5, Zenon DEF NewsPage!Next, NewsPage!OthersStore, NewsPage!CountList, NewsPage!Read, NewsPage!Ask,
       NewsPage!Answered, NewsPage!Failed, NewsPage!CountOne, NewsPage!Send, NewsPage!Announced, NewsPage!CallFailed,
       NewsPage!vars

LEMMA LeafHolds ==
    NewsPage!NewsPageAssumption =>
        (NewsPage!Init /\ [][NewsPage!Next]_(NewsPage!vars) => []NewsPage!TypeOK /\ []NewsPage!CardCountsItsList /\
         []NewsPage!OwnChangeShown /\ NewsPage!OnlyShorterListsStrand)
<1> SUFFICES ASSUME NewsPage!NewsPageAssumption
             PROVE  NewsPage!Init /\ [][NewsPage!Next]_(NewsPage!vars) =>
                    []NewsPage!TypeOK /\ []NewsPage!CardCountsItsList /\ []NewsPage!OwnChangeShown /\
                        NewsPage!OnlyShorterListsStrand
  OBVIOUS
<1>1. NewsPage!Init => LeafInv
  BY LeafInvInit
<1>2. LeafInv /\ [NewsPage!Next]_(NewsPage!vars) => LeafInv'
  <2>1. ASSUME LeafInv, [NewsPage!Next]_(NewsPage!vars) PROVE LeafInv'
    BY <2>1, LeafShapeStep, LeafQueriesStep, Zenon DEF LeafInv
  <2>2. QED
    BY <2>1
<1>3. LeafInv => NewsPage!TypeOK /\ NewsPage!CardCountsItsList /\ NewsPage!OwnChangeShown
  BY LeafInvGives
<1>4. LeafInv /\ LeafInv' /\ [NewsPage!Next]_(NewsPage!vars) => LeafStrands
  BY LeafStrandsStep
<1>5. NewsPage!OnlyShorterListsStrand <=> [][LeafStrands]_(NewsPage!vars)
  BY PTL DEF NewsPage!OnlyShorterListsStrand, LeafStrands
<1> HIDE DEF LeafStrands
<1>6. QED
  BY <1>1, <1>2, <1>3, <1>4, <1>5, PTL
-----------------------------------------------------------------------------
(***************************************************************************)
(* The feed of the app: NewsFeed.                                          *)
(***************************************************************************)
(* The cardinality the instance names is that of the library.              *)
LEMMA FeedCounts ==
    ASSUME NEW S
    PROVE  /\ NewsFeed!Cardinality(S) = Cardinality(S)
           /\ NewsFeed!IsFiniteSet(S) <=> IsFiniteSet(S)
BY DEF NewsFeed!Cardinality, Cardinality, NewsFeed!IsFiniteSet, IsFiniteSet

(* How many rows of Q come before n, by the dates d.                       *)
FeedRank(d, Q, n) == Cardinality({m \in Q : d[m] > d[n]})

(* The rows have dates of their own.                                       *)
FeedDated(d, Q) ==
    /\ IsFiniteSet(Q) /\ \A n \in Q : d[n] \in Nat
    /\ \A m, n \in Q : m # n => d[m] # d[n]

LEMMA FeedRankIs ==
    ASSUME NEW d, NEW Q, FeedDated(d, Q), NEW n \in Q
    PROVE  IsFiniteSet({m \in Q : d[m] > d[n]}) /\ FeedRank(d, Q, n) \in Nat
<1>1. IsFiniteSet({m \in Q : d[m] > d[n]})
  BY FS_Subset DEF FeedDated
<1>2. QED
  BY <1>1, FS_CardinalityType DEF FeedRank

LEMMA FeedEarlierIsLess ==
    ASSUME NEW d, NEW Q, FeedDated(d, Q), NEW m \in Q, NEW n \in Q, d[m] > d[n]
    PROVE  FeedRank(d, Q, m) < FeedRank(d, Q, n)
<1> DEFINE A == {x \in Q : d[x] > d[m]}
           B == {x \in Q : d[x] > d[n]}
<1>1. A \subseteq B /\ m \in B /\ m \notin A
  BY SMT DEF FeedDated
<1>2. IsFiniteSet(B) /\ Cardinality(A) \in Nat /\ Cardinality(B) \in Nat
  BY FeedRankIs DEF FeedRank
<1> HIDE DEF A, B
<1>3. Cardinality(A) <= Cardinality(B) /\ Cardinality(A) # Cardinality(B)
  BY <1>1, <1>2, FS_Subset
<1>4. Cardinality(A) < Cardinality(B)
  BY <1>2, <1>3, SMT
<1>5. QED
  BY <1>4 DEF A, B, FeedRank

LEMMA FeedRanksDiffer ==
    ASSUME NEW d, NEW Q, FeedDated(d, Q), NEW m \in Q, NEW n \in Q, m # n
    PROVE  FeedRank(d, Q, m) # FeedRank(d, Q, n)
<1>1. FeedRank(d, Q, m) \in Nat /\ FeedRank(d, Q, n) \in Nat
  BY FeedRankIs
<1>2. d[m] > d[n] \/ d[n] > d[m]
  BY SMT DEF FeedDated
<1>3. FeedRank(d, Q, m) < FeedRank(d, Q, n) \/ FeedRank(d, Q, n) < FeedRank(d, Q, m)
  BY <1>2, FeedEarlierIsLess
<1>4. QED
  BY <1>1, <1>3, SMT

(* Every number below a rank is the rank of a row before it.               *)
LEMMA FeedNoRankIsLeftOut ==
    ASSUME NEW d, NEW Q, FeedDated(d, Q), NEW n \in Q, NEW k \in Nat, k < FeedRank(d, Q, n)
    PROVE  \E m \in Q : FeedRank(d, Q, m) = k
<1> DEFINE B == {x \in Q : d[x] > d[n]}
           T == 0..(FeedRank(d, Q, n) - 1)
           f == [m \in B |-> FeedRank(d, Q, m)]
<1>1. FeedRank(d, Q, n) \in Nat
  BY FeedRankIs
<1>2. \A m \in B : FeedRank(d, Q, m) \in T
  <2>1. TAKE m \in B
  <2>2. m \in Q /\ FeedRank(d, Q, m) \in Nat /\ FeedRank(d, Q, m) < FeedRank(d, Q, n)
    BY <2>1, FeedRankIs, FeedEarlierIsLess
  <2>3. QED
    BY <1>1, <2>2, SMT
<1>3. \A x, y \in B : f[x] = f[y] => x = y
  BY FeedRanksDiffer
<1>4. B \subseteq Q /\ IsFiniteSet(T) /\ Cardinality(T) = FeedRank(d, Q, n)
  <2>1. 0 \in Int /\ FeedRank(d, Q, n) - 1 \in Int
    BY <1>1, SMT
  <2>2. IsFiniteSet(T) /\ Cardinality(T) = IF 0 > FeedRank(d, Q, n) - 1 THEN 0 ELSE FeedRank(d, Q, n) - 1 - 0 + 1
    BY <2>1, FS_Interval
  <2>3. QED
    BY <1>1, <2>2, SMT
<1>5. Cardinality(B) = FeedRank(d, Q, n)
  BY DEF FeedRank
<1> HIDE DEF B, T
<1>6. f \in Injection(B, T)
  BY <1>2, <1>3, Zenon DEF Injection, IsInjective
<1>7. f \in Surjection(B, T)
  BY <1>4, <1>5, <1>6, FS_Injection
<1>8. k \in T
  BY <1>1, SMT DEF T
<1>9. \E m \in B : f[m] = k
  BY <1>7, <1>8 DEF Surjection
<1>10. QED
  BY <1>4, <1>9

(* A page: the rows whose ranks are in an interval of z numbers.           *)
LEMMA FeedPageIsSmall ==
    ASSUME NEW d, NEW Q, FeedDated(d, Q), NEW s \in Nat, NEW z \in Nat \ {0},
           NEW W, W = {n \in Q : s <= FeedRank(d, Q, n) /\ FeedRank(d, Q, n) < s + z}
    PROVE  IsFiniteSet(W) /\ Cardinality(W) \in Nat /\ Cardinality(W) <= z
<1> DEFINE T == s..(s + z - 1)
           f == [n \in W |-> FeedRank(d, Q, n)]
<1>1. \A n \in W : FeedRank(d, Q, n) \in T
  <2>1. TAKE n \in W
  <2>2. FeedRank(d, Q, n) \in Nat
    BY FeedRankIs
  <2>3. QED
    BY <2>2, SMT
<1>2. IsFiniteSet(T) /\ Cardinality(T) = z
  <2>1. s \in Int /\ s + z - 1 \in Int
    BY SMT
  <2>2. IsFiniteSet(T) /\ Cardinality(T) = IF s > s + z - 1 THEN 0 ELSE s + z - 1 - s + 1
    BY <2>1, FS_Interval
  <2>3. QED
    BY <2>2, SMT
<1>3. \A x, y \in W : f[x] = f[y] => x = y
  BY FeedRanksDiffer
<1> HIDE DEF T
<1>4. f \in Injection(W, T)
  BY <1>1, <1>3, Zenon DEF Injection, IsInjective
<1>5. IsFiniteSet(W) /\ Cardinality(W) <= Cardinality(T)
  BY <1>2, <1>4, FS_Injection
<1>6. QED
  BY <1>2, <1>5, FS_CardinalityType

LEMMA FeedPageIsFull ==
    ASSUME NEW d, NEW Q, FeedDated(d, Q), NEW s \in Nat, NEW z \in Nat \ {0},
           NEW W, W = {n \in Q : s <= FeedRank(d, Q, n) /\ FeedRank(d, Q, n) < s + z},
           NEW m \in Q, FeedRank(d, Q, m) >= s + z
    PROVE  Cardinality(W) >= z
<1> DEFINE T == s..(s + z - 1)
           f == [n \in W |-> FeedRank(d, Q, n)]
<1>1. \A n \in W : FeedRank(d, Q, n) \in T
  <2>1. TAKE n \in W
  <2>2. FeedRank(d, Q, n) \in Nat
    BY FeedRankIs
  <2>3. QED
    BY <2>2, SMT
<1>2. IsFiniteSet(T) /\ Cardinality(T) = z
  <2>1. s \in Int /\ s + z - 1 \in Int
    BY SMT
  <2>2. IsFiniteSet(T) /\ Cardinality(T) = IF s > s + z - 1 THEN 0 ELSE s + z - 1 - s + 1
    BY <2>1, FS_Interval
  <2>3. QED
    BY <2>2, SMT
<1>3. \A k \in T : \E n \in W : f[n] = k
  <2>1. TAKE k \in T
  <2>2. FeedRank(d, Q, m) \in Nat
    BY FeedRankIs
  <2>3. k \in Nat /\ k < FeedRank(d, Q, m) /\ s <= k /\ k < s + z
    BY <2>2, SMT
  <2>4. PICK n \in Q : FeedRank(d, Q, n) = k
    BY <2>3, FeedNoRankIsLeftOut
  <2>5. n \in W
    BY <2>3, <2>4, SMT
  <2>6. QED
    BY <2>4, <2>5
<1> HIDE DEF T
<1>4. f \in Surjection(W, T)
  BY <1>1, <1>3, Zenon DEF Surjection
<1>5. W \subseteq Q /\ IsFiniteSet(Q)
  BY Zenon DEF FeedDated
<1>6. IsFiniteSet(W)
  BY <1>5, FS_Subset
<1>7. Cardinality(T) <= Cardinality(W)
  BY <1>4, <1>6, FS_Surjection
<1>8. Cardinality(W) \in Nat
  BY <1>6, FS_CardinalityType
<1>9. QED
  BY <1>2, <1>7, <1>8, SMT

(* What is taken from the rows or put among them, and the ranks.           *)
LEMMA FeedFewerRank ==
    ASSUME NEW d, NEW Q, FeedDated(d, Q), NEW V, V \subseteq Q, NEW n \in V
    PROVE  FeedDated(d, V) /\ FeedRank(d, V, n) \in Nat /\ FeedRank(d, Q, n) \in Nat /\
           FeedRank(d, V, n) <= FeedRank(d, Q, n)
<1>1. IsFiniteSet(V)
  BY FS_Subset DEF FeedDated
<1>2. FeedDated(d, V)
  BY <1>1, Zenon DEF FeedDated
<1>3. IsFiniteSet({m \in Q : d[m] > d[n]}) /\ {m \in V : d[m] > d[n]} \subseteq {m \in Q : d[m] > d[n]}
  BY FeedRankIs
<1>4. FeedRank(d, V, n) <= FeedRank(d, Q, n)
  BY <1>3, FS_Subset DEF FeedRank
<1>5. QED
  BY <1>2, <1>4, FeedRankIs

-----------------------------------------------------------------------------
(* No row was published or dated anew in S; none taken back or dated anew. *)
FeedNothingCame(S) == \A n \in FeedNews : <<"added", n>> \notin S /\ <<"moved", n>> \notin S
FeedNothingLeft(S) == \A n \in FeedNews : <<"removed", n>> \notin S /\ <<"moved", n>> \notin S

(* The rows read in the pages P, when only S happened meanwhile.           *)
FeedFits(P) ==
    /\ P \in Seq(SUBSET FeedNews)
    /\ \A i \in 1..Len(P) : Cardinality(P[i]) \in Nat /\ Cardinality(P[i]) <= FeedLimit
                            /\ (i < Len(P) => Cardinality(P[i]) = FeedLimit)

FeedApart(P, S, d, Q) ==
    FeedNothingCame(S) => \A i \in 1..Len(P) : /\ \A n \in P[i] \cap Q : FeedRank(d, Q, n) < i * FeedLimit
                                               /\ \A j \in 1..Len(P) : i # j => P[i] \cap P[j] = {}

FeedDeep(P, S, d, Q) ==
    FeedNothingLeft(S) => \A n \in Q : <<"added", n>> \notin S /\ (\A i \in 1..Len(P) : n \notin P[i]) =>
                                      FeedRank(d, Q, n) >= Len(P) * FeedLimit

FeedEnded(P, S, Q) ==
    FeedNothingLeft(S) /\ P # <<>> /\ Cardinality(P[Len(P)]) < FeedLimit =>
        \A n \in Q : <<"added", n>> \notin S => \E i \in 1..Len(P) : n \in P[i]

FeedTaken(P, S, d, Q) == FeedFits(P) /\ FeedApart(P, S, d, Q) /\ FeedDeep(P, S, d, Q) /\ FeedEnded(P, S, Q)

LEMMA FeedNoneTaken ==
    ASSUME NewsFeed!NewsFeedAssumption, NEW S, NEW d, NEW Q, FeedDated(d, Q)
    PROVE  FeedTaken(<<>>, S, d, Q)
<1>1. <<>> \in Seq(SUBSET FeedNews) /\ Len(<<>>) = 0
  BY EmptySeq
<1>2. FeedFits(<<>>) /\ FeedApart(<<>>, S, d, Q)
  BY <1>1, SMT DEF FeedFits, FeedApart
<1>3. \A n \in Q : FeedRank(d, Q, n) >= 0 * FeedLimit
  <2>1. TAKE n \in Q
  <2>2. FeedRank(d, Q, n) \in Nat /\ FeedLimit \in Nat
    BY FeedCounts, FeedRankIs DEF NewsFeed!NewsFeedAssumption
  <2>3. QED
    BY <2>2, SMT
<1>4. FeedDeep(<<>>, S, d, Q)
  BY <1>1, <1>3 DEF FeedDeep
<1>5. QED
  BY <1>2, <1>4 DEF FeedTaken, FeedEnded

LEMMA FeedTimes == ASSUME NEW i \in Nat, NEW j \in Nat, NEW z \in Nat, i <= j PROVE i * z \in Nat /\ i * z <= j * z
BY Z3

LEMMA FeedAgain == ASSUME NEW j \in Nat, NEW z \in Nat PROVE j * z \in Nat /\ (j + 1) * z = j * z + z
BY Z3

(* The next page comes after the ones there are.                           *)
LEMMA FeedOneMoreTaken ==
    ASSUME NewsFeed!NewsFeedAssumption, NEW P, NEW S, NEW d, NEW Q, Q \subseteq FeedNews, FeedDated(d, Q),
           FeedTaken(P, S, d, Q), NewsFeed!NextPage(P),
           NEW W, W = {n \in Q : Len(P) * FeedLimit <= FeedRank(d, Q, n) /\
                       FeedRank(d, Q, n) < Len(P) * FeedLimit + FeedLimit}
    PROVE  FeedTaken(Append(P, W), S, d, Q)
<1> DEFINE P2 == Append(P, W)
           k == Len(P)
<1>1. P \in Seq(SUBSET FeedNews) /\ W \in SUBSET FeedNews /\ FeedLimit \in Nat \ {0}
  BY FeedCounts DEF FeedTaken, FeedFits, NewsFeed!NewsFeedAssumption
<1>2. P2 \in Seq(SUBSET FeedNews) /\ Len(P2) = k + 1 /\ P2[k + 1] = W /\ \A i \in 1..k : P2[i] = P[i]
  BY <1>1, AppendProperties
<1>3. k \in Nat /\ k * FeedLimit \in Nat /\ (k + 1) * FeedLimit = k * FeedLimit + FeedLimit
  <2>1. k \in Nat
    BY <1>1, LenProperties
  <2>2. QED
    BY <1>1, <2>1, FeedAgain
<1>4. IsFiniteSet(W) /\ Cardinality(W) \in Nat /\ Cardinality(W) <= FeedLimit
  BY <1>1, <1>3, FeedPageIsSmall
<1>5. \A i \in 1..k : Cardinality(P[i]) = FeedLimit
  <2>1. TAKE i \in 1..k
  <2>2. Cardinality(P[i]) \in Nat /\ Cardinality(P[i]) <= FeedLimit /\ (i < k => Cardinality(P[i]) = FeedLimit)
    BY DEF FeedTaken, FeedFits
  <2>3. CASE i < k
    BY <2>2, <2>3
  <2>4. CASE i = k
    <3>1. P # <<>>
      BY <1>1, <1>3, <2>4, EmptySeq, SMT
    <3>2. Cardinality(P[i]) >= FeedLimit
      BY FeedCounts, <2>4, <3>1 DEF NewsFeed!NextPage
    <3>3. QED
      BY <1>1, <2>2, <3>2, SMT
  <2>5. QED
    BY <1>3, <2>3, <2>4, SMT
<1> HIDE DEF P2, k
<1>6. \A i \in 1..(k + 1) : i \in 1..k \/ i = k + 1
  BY <1>3, SMT
<1>7. FeedFits(P2)
  <2>1. \A i \in 1..(k + 1) : Cardinality(P2[i]) \in Nat /\ Cardinality(P2[i]) <= FeedLimit
                              /\ (i < k + 1 => Cardinality(P2[i]) = FeedLimit)
    <3>1. TAKE i \in 1..(k + 1)
    <3>2. CASE i \in 1..k
      BY <1>1, <1>2, <1>5, <3>2, SMT
    <3>3. CASE i = k + 1
      <4>1. P2[i] = W
        BY <1>2, <3>3
      <4>2. ~(i < k + 1)
        BY <1>3, <3>3, SMT
      <4>3. QED
        BY <1>4, <4>1, <4>2
    <3>4. QED
      BY <1>6, <3>2, <3>3
  <2>2. QED
    BY <1>2, <2>1 DEF FeedFits
<1>8. FeedApart(P2, S, d, Q)
  <2>1. SUFFICES ASSUME FeedNothingCame(S), NEW i \in 1..(k + 1)
                 PROVE  /\ \A n \in P2[i] \cap Q : FeedRank(d, Q, n) < i * FeedLimit
                        /\ \A j \in 1..(k + 1) : i # j => P2[i] \cap P2[j] = {}
    BY <1>2 DEF FeedApart
  <2>2. \A x \in 1..k : /\ \A n \in P[x] \cap Q : FeedRank(d, Q, n) < x * FeedLimit
                        /\ \A y \in 1..k : x # y => P[x] \cap P[y] = {}
    BY <2>1 DEF FeedTaken, FeedApart, k
  <2>3. \A x \in 1..k : W \cap P[x] = {}
    <3>1. SUFFICES ASSUME NEW x \in 1..k, NEW n \in W, n \in P[x] PROVE FALSE
      OBVIOUS
    <3>2. n \in Q /\ k * FeedLimit <= FeedRank(d, Q, n)
      BY DEF k
    <3>3. FeedRank(d, Q, n) < x * FeedLimit
      BY <2>2, <3>1, <3>2
    <3>4. x \in Nat /\ x <= k
      BY <1>3, SMT
    <3>5. x * FeedLimit \in Nat /\ x * FeedLimit <= k * FeedLimit
      BY <1>1, <1>3, <3>4, FeedTimes
    <3>6. FeedRank(d, Q, n) \in Nat
      BY <3>2, FeedRankIs
    <3>7. QED
      BY <1>3, <3>2, <3>3, <3>5, <3>6, SMT
  <2>4. \A n \in W : FeedRank(d, Q, n) < (k + 1) * FeedLimit
    BY <1>3 DEF k
  <2>5. \A n \in P2[i] \cap Q : FeedRank(d, Q, n) < i * FeedLimit
    <3>1. CASE i \in 1..k
      BY <1>2, <2>2, <3>1
    <3>2. CASE i = k + 1
      BY <1>2, <2>4, <3>2
    <3>3. QED
      BY <1>6, <3>1, <3>2
  <2>6. \A j \in 1..(k + 1) : i # j => P2[i] \cap P2[j] = {}
    <3>1. SUFFICES ASSUME NEW j \in 1..(k + 1), i # j PROVE P2[i] \cap P2[j] = {}
      OBVIOUS
    <3>2. CASE i \in 1..k /\ j \in 1..k
      BY <1>2, <2>2, <3>1, <3>2
    <3>3. CASE i \in 1..k /\ j = k + 1
      <4>1. P2[i] = P[i] /\ P2[j] = W
        BY <1>2, <3>3
      <4>2. QED
        BY <2>3, <3>3, <4>1, Zenon
    <3>4. CASE i = k + 1 /\ j \in 1..k
      <4>1. P2[j] = P[j] /\ P2[i] = W
        BY <1>2, <3>4
      <4>2. QED
        BY <2>3, <3>4, <4>1, Zenon
    <3>5. QED
      BY <1>6, <3>1, <3>2, <3>3, <3>4
  <2>7. QED
    BY <2>5, <2>6
<1>9. FeedDeep(P2, S, d, Q)
  <2>1. SUFFICES ASSUME FeedNothingLeft(S), NEW n \in Q, <<"added", n>> \notin S, \A i \in 1..(k + 1) : n \notin P2[i]
                 PROVE  FeedRank(d, Q, n) >= (k + 1) * FeedLimit
    BY <1>2 DEF FeedDeep
  <2>2. \A i \in 1..k : i \in 1..(k + 1)
    BY <1>3, SMT
  <2>3. k + 1 \in 1..(k + 1)
    BY <1>3, SMT
  <2>4. n \notin W /\ \A i \in 1..k : n \notin P[i]
    BY <1>2, <2>1, <2>2, <2>3
  <2>5. FeedRank(d, Q, n) >= k * FeedLimit
    BY <2>1, <2>4 DEF FeedTaken, FeedDeep, k
  <2>6. FeedRank(d, Q, n) \in Nat
    BY FeedRankIs
  <2>7. ~(k * FeedLimit <= FeedRank(d, Q, n) /\ FeedRank(d, Q, n) < k * FeedLimit + FeedLimit)
    BY <2>4 DEF k
  <2>8. QED
    BY <1>1, <1>3, <2>5, <2>6, <2>7, SMT
<1>10. FeedEnded(P2, S, Q)
  <2>1. SUFFICES ASSUME FeedNothingLeft(S), Cardinality(W) < FeedLimit, NEW n \in Q, <<"added", n>> \notin S
                 PROVE  \E i \in 1..(k + 1) : n \in P2[i]
    BY <1>2 DEF FeedEnded
  <2>2. SUFFICES ASSUME \A i \in 1..(k + 1) : n \notin P2[i] PROVE FALSE
    OBVIOUS
  <2>3. FeedRank(d, Q, n) >= (k + 1) * FeedLimit
    BY <1>2, <1>9, <2>1, <2>2 DEF FeedDeep
  <2>4. FeedRank(d, Q, n) >= k * FeedLimit + FeedLimit
    BY <1>3, <2>3
  <2>5. W = {x \in Q : k * FeedLimit <= FeedRank(d, Q, x) /\ FeedRank(d, Q, x) < k * FeedLimit + FeedLimit}
    BY DEF k
  <2>6. Cardinality(W) >= FeedLimit
    BY <1>1, <1>3, <2>4, <2>5, FeedPageIsFull
  <2>7. QED
    BY <1>1, <1>4, <2>1, <2>6, SMT
<1>11. QED
  BY <1>7, <1>8, <1>9, <1>10 DEF FeedTaken, P2

(* Dates anew: nothing is said of what was read before.                    *)
LEMMA FeedRedatedTaken ==
    ASSUME NEW P, NEW d, NEW Q, FeedFits(P), NEW m \in FeedNews, NEW S, <<"moved", m>> \in S
    PROVE  FeedTaken(P, S, d, Q)
<1>1. ~FeedNothingCame(S) /\ ~FeedNothingLeft(S)
  BY DEF FeedNothingCame, FeedNothingLeft
<1>2. QED
  BY <1>1 DEF FeedTaken, FeedApart, FeedDeep, FeedEnded

LEMMA FeedWithdrawnTaken ==
    ASSUME NewsFeed!NewsFeedAssumption, NEW P, NEW S, NEW d, NEW Q, FeedDated(d, Q), FeedTaken(P, S, d, Q),
           NEW m \in FeedNews, NEW S2, S2 = S \cup {<<"removed", m>>}
    PROVE  FeedTaken(P, S2, d, Q \ {m})
<1>1. ~FeedNothingLeft(S2)
  BY DEF FeedNothingLeft
<1>2. "removed" # "added" /\ "removed" # "moved"
  OBVIOUS
<1>3. FeedNothingCame(S2) => FeedNothingCame(S)
  BY <1>2 DEF FeedNothingCame
<1>4. FeedApart(P, S2, d, Q \ {m})
  <2>1. SUFFICES ASSUME FeedNothingCame(S2), NEW i \in 1..Len(P)
                 PROVE  /\ \A n \in P[i] \cap (Q \ {m}) : FeedRank(d, Q \ {m}, n) < i * FeedLimit
                        /\ \A j \in 1..Len(P) : i # j => P[i] \cap P[j] = {}
    BY DEF FeedApart
  <2>2. /\ \A n \in P[i] \cap Q : FeedRank(d, Q, n) < i * FeedLimit
        /\ \A j \in 1..Len(P) : i # j => P[i] \cap P[j] = {}
    BY <1>3, <2>1 DEF FeedTaken, FeedApart
  <2>3. ASSUME NEW n \in P[i] \cap (Q \ {m}) PROVE FeedRank(d, Q \ {m}, n) < i * FeedLimit
    <3>1. Q \ {m} \subseteq Q /\ n \in Q \ {m} /\ n \in P[i] \cap Q
      BY <2>3
    <3>2. /\ FeedRank(d, Q \ {m}, n) \in Nat /\ FeedRank(d, Q, n) \in Nat
          /\ FeedRank(d, Q \ {m}, n) <= FeedRank(d, Q, n)
      BY <3>1, FeedFewerRank
    <3>3. FeedRank(d, Q, n) < i * FeedLimit
      BY <2>2, <3>1
    <3>4. i \in Nat /\ FeedLimit \in Nat
      <4>1. Len(P) \in Nat
        BY LenProperties DEF FeedTaken, FeedFits
      <4>2. QED
        BY FeedCounts, <4>1, SMT DEF NewsFeed!NewsFeedAssumption
    <3>5. i * FeedLimit \in Nat
      BY <3>4, FeedAgain
    <3>6. QED
      BY <3>2, <3>3, <3>5, SMT
  <2>4. QED
    BY <2>2, <2>3
<1>5. QED
  BY <1>1, <1>4 DEF FeedTaken, FeedDeep, FeedEnded

LEMMA FeedPublishedTaken ==
    ASSUME NewsFeed!NewsFeedAssumption, NEW P, NEW S, NEW d, NEW e, NEW Q, NEW m \in FeedNews, m \notin Q,
           FeedDated(e, Q \cup {m}),
           \A n \in Q : e[n] = d[n], FeedTaken(P, S, d, Q), NEW S2, S2 = S \cup {<<"added", m>>}
    PROVE  FeedTaken(P, S2, e, Q \cup {m})
<1>1. ~FeedNothingCame(S2)
  BY DEF FeedNothingCame
<1>2. "removed" # "added" /\ "added" # "moved"
  OBVIOUS
<1>3. FeedNothingLeft(S2) => FeedNothingLeft(S)
  BY <1>2 DEF FeedNothingLeft
<1>4. \A n \in Q \cup {m} : <<"added", n>> \notin S2 => n \in Q /\ <<"added", n>> \notin S
  OBVIOUS
<1>5. FeedDeep(P, S2, e, Q \cup {m})
  <2>1. SUFFICES ASSUME FeedNothingLeft(S2), NEW n \in Q \cup {m}, <<"added", n>> \notin S2,
                        \A i \in 1..Len(P) : n \notin P[i]
                 PROVE  FeedRank(e, Q \cup {m}, n) >= Len(P) * FeedLimit
    BY DEF FeedDeep
  <2>2. n \in Q /\ FeedRank(d, Q, n) >= Len(P) * FeedLimit
    BY <1>3, <1>4, <2>1 DEF FeedTaken, FeedDeep
  <2>3. FeedRank(e, Q, n) = FeedRank(d, Q, n)
    <3>1. {x \in Q : e[x] > e[n]} = {x \in Q : d[x] > d[n]}
      BY <2>2
    <3>2. QED
      BY <3>1 DEF FeedRank
  <2>4. /\ FeedRank(e, Q, n) \in Nat /\ FeedRank(e, Q \cup {m}, n) \in Nat
        /\ FeedRank(e, Q, n) <= FeedRank(e, Q \cup {m}, n)
    <3>1. Q \subseteq Q \cup {m}
      OBVIOUS
    <3>2. QED
      BY <2>2, <3>1, FeedFewerRank
  <2>5. Len(P) * FeedLimit \in Nat
    <3>1. Len(P) \in Nat
      BY LenProperties DEF FeedTaken, FeedFits
    <3>2. QED
      BY FeedCounts, <3>1, FeedAgain DEF NewsFeed!NewsFeedAssumption
  <2>6. QED
    BY <2>2, <2>3, <2>4, <2>5, SMT
<1>6. FeedEnded(P, S2, Q \cup {m})
  <2>1. SUFFICES ASSUME FeedNothingLeft(S2), P # <<>>, Cardinality(P[Len(P)]) < FeedLimit, NEW n \in Q \cup {m},
                        <<"added", n>> \notin S2
                 PROVE  \E i \in 1..Len(P) : n \in P[i]
    BY DEF FeedEnded
  <2>2. QED
    BY <1>3, <1>4, <2>1 DEF FeedTaken, FeedEnded
<1>7. QED
  BY <1>1, <1>5, <1>6 DEF FeedTaken, FeedApart

-----------------------------------------------------------------------------
(* The dates of the news.                                                  *)
FeedCalendar ==
    /\ at \in [FeedNews -> Nat] /\ public \subseteq FeedNews /\ changes \in 0..MaxMoved
    /\ \A n \in FeedNews : at[n] <= Now + changes
    /\ \A m, n \in FeedNews : m # n /\ at[m] = at[n] => at[n] = 0
    /\ \A n \in public : at[n] > 0

FeedInv ==
    /\ FeedCalendar
    /\ shownSeen \in SUBSET (NewsFeed!Kinds \X FeedNews) /\ fetchSeen \in SUBSET (NewsFeed!Kinds \X FeedNews)
    /\ fetch \in [on : BOOLEAN, got : Seq(SUBSET FeedNews), want : Nat]
    /\ FeedTaken(pages, shownSeen, at, public) /\ FeedTaken(fetch.got, fetchSeen, at, public)
    /\ NewsFeed!NextPage(fetch.got)

LEMMA FeedCalendarDated == ASSUME NewsFeed!NewsFeedAssumption, FeedCalendar PROVE FeedDated(at, public)
<1>1. IsFiniteSet(public)
  BY FeedCounts, FS_Subset DEF NewsFeed!NewsFeedAssumption, FeedCalendar
<1>2. \A n \in public : at[n] \in Nat
  BY DEF FeedCalendar
<1>3. \A m, n \in public : m # n => at[m] # at[n]
  BY <1>2, SMT DEF FeedCalendar
<1>4. QED
  BY <1>1, <1>2, <1>3 DEF FeedDated

LEMMA FeedIdleIs ==
    ASSUME NewsFeed!NewsFeedAssumption
    PROVE  /\ NewsFeed!Idle \in [on : BOOLEAN, got : Seq(SUBSET FeedNews), want : Nat]
                                                             /\ NewsFeed!Idle.got = <<>> /\ NewsFeed!NextPage(<<>>)
<1>1. <<>> \in Seq(SUBSET FeedNews)
  BY EmptySeq
<1>2. QED
  BY FeedCounts, <1>1, SMT DEF NewsFeed!Idle, NewsFeed!NextPage

LEMMA FeedInvInit == ASSUME NewsFeed!NewsFeedAssumption, NewsFeed!Init PROVE FeedInv
<1>1. FeedCalendar
  <2>1. \A n \in FeedNews : FirstAt[n] \in Nat /\ FirstAt[n] <= Now
    BY FeedCounts, SMT DEF NewsFeed!NewsFeedAssumption
  <2>2. at \in [FeedNews -> Nat]
    BY FeedCounts, <2>1, Zenon DEF NewsFeed!Init, NewsFeed!NewsFeedAssumption
  <2>3. Now \in Nat /\ MaxMoved \in Nat
    BY FeedCounts DEF NewsFeed!NewsFeedAssumption
  <2>4. at = FirstAt /\ changes = 0 /\ public = {n \in FeedNews : FirstAt[n] > 0}
    BY DEF NewsFeed!Init
  <2>5. QED
    BY FeedCounts, <2>1, <2>2, <2>3, <2>4, SMT DEF FeedCalendar, NewsFeed!NewsFeedAssumption
<1>2. FeedDated(at, public)
  BY <1>1, FeedCalendarDated
<1>3. FeedTaken(<<>>, shownSeen, at, public) /\ FeedTaken(<<>>, fetchSeen, at, public)
  BY <1>2, FeedNoneTaken
<1>4. QED
  BY <1>1, <1>3, FeedIdleIs, Zenon DEF FeedInv, NewsFeed!Init

LEMMA FeedStepPublish ==
    ASSUME NewsFeed!NewsFeedAssumption, FeedInv, NEW n \in FeedNews, NewsFeed!Publish(n)
    PROVE  FeedInv'
<1>1. /\ n \notin public /\ public' = public \cup {n} /\ changes \in Nat /\ changes < MaxMoved /\ changes' = changes + 1
      /\ at' = IF at[n] = 0 THEN [at EXCEPT ![n] = NewsFeed!Latest] ELSE at
      /\ shownSeen' = shownSeen \cup {<<"added", n>>} /\ fetchSeen' = fetchSeen \cup {<<"added", n>>}
      /\ pages' = pages /\ fetch' = fetch
  BY SMT DEF NewsFeed!Publish, NewsFeed!Changes, FeedInv, FeedCalendar
<1>2. Now \in Nat /\ MaxMoved \in Nat /\ NewsFeed!Latest \in Nat
  BY FeedCounts, <1>1, SMT DEF NewsFeed!NewsFeedAssumption, NewsFeed!Latest
<1>3. /\ at' \in [FeedNews -> Nat] /\ at'[n] > 0 /\ (at'[n] = at[n] \/ at'[n] = Now + changes + 1)
      /\ \A m \in FeedNews : m # n => at'[m] = at[m]
  BY <1>1, <1>2, SMT DEF FeedInv, FeedCalendar, NewsFeed!Latest
<1>4. FeedCalendar'
  <2>1. public' \subseteq FeedNews /\ changes' \in 0..MaxMoved
    BY <1>1, <1>2, SMT DEF FeedInv, FeedCalendar
  <2>2. \A m \in FeedNews : at[m] \in Nat /\ at[m] <= Now + changes
    BY DEF FeedInv, FeedCalendar
  <2>3. \A m \in FeedNews : at'[m] <= Now + changes'
    BY <1>1, <1>2, <1>3, <2>2, SMT
  <2>4. \A m, x \in FeedNews : m # x /\ at'[m] = at'[x] => at'[x] = 0
    <3>1. SUFFICES ASSUME NEW m \in FeedNews, NEW x \in FeedNews, m # x, at'[m] = at'[x] PROVE at'[x] = 0
      OBVIOUS
    <3>2. at[m] = at[x] => at[x] = 0
      BY <3>1 DEF FeedInv, FeedCalendar
    <3>3. CASE m # n /\ x # n
      BY <1>3, <3>1, <3>2, <3>3
    <3>4. CASE at'[n] = at[n]
      BY <1>3, <3>1, <3>2, <3>4
    <3>5. CASE at'[n] = Now + changes + 1 /\ (m = n \/ x = n)
      BY <1>1, <1>2, <1>3, <2>2, <3>1, <3>5, SMT
    <3>6. QED
      BY <1>3, <3>3, <3>4, <3>5
  <2>5. \A m \in public' : at'[m] > 0
    BY <1>1, <1>3 DEF FeedInv, FeedCalendar
  <2>6. QED
    BY <1>3, <2>1, <2>3, <2>4, <2>5 DEF FeedCalendar
<1>5. FeedDated(at', public')
  <2>1. IsFiniteSet(public')
    <3>1. public' \in SUBSET FeedNews
      BY <1>4, Zenon DEF FeedCalendar
    <3>2. QED
      BY FeedCounts, <3>1, FS_Subset DEF NewsFeed!NewsFeedAssumption
  <2>2. \A x \in public' : at'[x] \in Nat
    BY <1>4 DEF FeedCalendar
  <2>3. \A m, x \in public' : m # x => at'[m] # at'[x]
    BY <1>4, <2>2, SMT DEF FeedCalendar
  <2>4. QED
    BY <2>1, <2>2, <2>3 DEF FeedDated
<1>6. \A x \in public : at'[x] = at[x]
  BY <1>1, <1>3, Zenon DEF FeedInv, FeedCalendar
<1>7. ASSUME NEW P, NEW S, FeedTaken(P, S, at, public), NEW S2, S2 = S \cup {<<"added", n>>}
      PROVE  FeedTaken(P, S2, at', public')
  BY <1>1, <1>5, <1>6, <1>7, FeedPublishedTaken
<1>8. FeedTaken(pages', shownSeen', at', public') /\ FeedTaken(fetch'.got, fetchSeen', at', public')
  BY <1>1, <1>7 DEF FeedInv
<1>9. shownSeen' \in SUBSET (NewsFeed!Kinds \X FeedNews) /\ fetchSeen' \in SUBSET (NewsFeed!Kinds \X FeedNews)
  <2>1. <<"added", n>> \in NewsFeed!Kinds \X FeedNews
    BY DEF NewsFeed!Kinds
  <2>2. QED
    BY <1>1, <2>1, Zenon DEF FeedInv
<1>10. fetch' \in [on : BOOLEAN, got : Seq(SUBSET FeedNews), want : Nat] /\ NewsFeed!NextPage(fetch'.got)
  BY <1>1 DEF FeedInv
<1>11. QED
  BY FeedCounts, <1>4, <1>8, <1>9, <1>10, Zenon DEF FeedInv, NewsFeed!NextPage

LEMMA FeedStepWithdraw ==
    ASSUME NewsFeed!NewsFeedAssumption, FeedInv, NEW n \in FeedNews, NewsFeed!Withdraw(n)
    PROVE  FeedInv'
<1>1. /\ n \in public /\ public' = public \ {n} /\ changes \in Nat /\ changes < MaxMoved /\ changes' = changes + 1
      /\ at' = at /\ pages' = pages /\ fetch' = fetch
      /\ shownSeen' = shownSeen \cup {<<"removed", n>>} /\ fetchSeen' = fetchSeen \cup {<<"removed", n>>}
  BY SMT DEF NewsFeed!Withdraw, NewsFeed!Changes, FeedInv, FeedCalendar
<1>2. Now \in Nat /\ MaxMoved \in Nat
  BY FeedCounts DEF NewsFeed!NewsFeedAssumption
<1>3. \A m \in FeedNews : at'[m] <= Now + changes'
  BY <1>1, <1>2, SMT DEF FeedInv, FeedCalendar
<1>4. FeedCalendar'
  BY <1>1, <1>2, <1>3, SMT DEF FeedInv, FeedCalendar
<1>5. FeedDated(at, public)
  BY FeedCalendarDated DEF FeedInv
<1>6. ASSUME NEW P, NEW S, FeedTaken(P, S, at, public), NEW S2, S2 = S \cup {<<"removed", n>>}
      PROVE  FeedTaken(P, S2, at', public')
  BY <1>1, <1>5, <1>6, FeedWithdrawnTaken
<1>7. FeedTaken(pages', shownSeen', at', public') /\ FeedTaken(fetch'.got, fetchSeen', at', public')
  BY <1>1, <1>6 DEF FeedInv
<1>8. shownSeen' \in SUBSET (NewsFeed!Kinds \X FeedNews) /\ fetchSeen' \in SUBSET (NewsFeed!Kinds \X FeedNews)
  <2>1. <<"removed", n>> \in NewsFeed!Kinds \X FeedNews
    BY DEF NewsFeed!Kinds
  <2>2. QED
    BY <1>1, <2>1, Zenon DEF FeedInv
<1>9. fetch' \in [on : BOOLEAN, got : Seq(SUBSET FeedNews), want : Nat] /\ NewsFeed!NextPage(fetch'.got)
  BY <1>1 DEF FeedInv
<1>10. QED
  BY FeedCounts, <1>4, <1>7, <1>8, <1>9, Zenon DEF FeedInv, NewsFeed!NextPage

LEMMA FeedStepRedate ==
    ASSUME NewsFeed!NewsFeedAssumption, FeedInv, NEW n \in FeedNews, NewsFeed!Redate(n)
    PROVE  FeedInv'
<1>1. /\ public' = public /\ changes \in Nat /\ changes < MaxMoved /\ changes' = changes + 1
      /\ at' = [at EXCEPT ![n] = NewsFeed!Latest] /\ pages' = pages /\ fetch' = fetch
      /\ shownSeen' = shownSeen \cup {<<"moved", n>>} /\ fetchSeen' = fetchSeen \cup {<<"moved", n>>}
  BY SMT DEF NewsFeed!Redate, NewsFeed!Changes, FeedInv, FeedCalendar
<1>2. Now \in Nat /\ MaxMoved \in Nat /\ NewsFeed!Latest \in Nat
  BY FeedCounts, <1>1, SMT DEF NewsFeed!NewsFeedAssumption, NewsFeed!Latest
<1>3. /\ at' \in [FeedNews -> Nat] /\ at'[n] = Now + changes + 1
      /\ \A m \in FeedNews : m # n => at'[m] = at[m]
  BY <1>1, <1>2, SMT DEF FeedInv, FeedCalendar, NewsFeed!Latest
<1>4. FeedCalendar'
  <2>1. public' \subseteq FeedNews /\ changes' \in 0..MaxMoved
    BY <1>1, <1>2, SMT DEF FeedInv, FeedCalendar
  <2>2. \A m \in FeedNews : at[m] \in Nat /\ at[m] <= Now + changes
    BY DEF FeedInv, FeedCalendar
  <2>3. \A m \in FeedNews : at'[m] <= Now + changes'
    BY <1>1, <1>2, <1>3, <2>2, SMT
  <2>4. \A m, x \in FeedNews : m # x /\ at'[m] = at'[x] => at'[x] = 0
    <3>1. SUFFICES ASSUME NEW m \in FeedNews, NEW x \in FeedNews, m # x, at'[m] = at'[x] PROVE at'[x] = 0
      OBVIOUS
    <3>2. at[m] = at[x] => at[x] = 0
      BY <3>1 DEF FeedInv, FeedCalendar
    <3>3. CASE m # n /\ x # n
      BY <1>3, <3>1, <3>2, <3>3
    <3>4. CASE m = n \/ x = n
      BY <1>1, <1>2, <1>3, <2>2, <3>1, <3>4, SMT
    <3>5. QED
      BY <3>3, <3>4
  <2>5. \A m \in public' : at'[m] > 0
    BY <1>1, <1>2, <1>3, SMT DEF FeedInv, FeedCalendar
  <2>6. QED
    BY <1>3, <2>1, <2>3, <2>4, <2>5 DEF FeedCalendar
<1>5. ASSUME NEW P, NEW S, FeedTaken(P, S, at, public), NEW S2, S2 = S \cup {<<"moved", n>>}
      PROVE  FeedTaken(P, S2, at', public')
  <2>1. <<"moved", n>> \in S2
    BY <1>5
  <2>2. FeedFits(P)
    BY <1>5 DEF FeedTaken
  <2>3. QED
    BY <2>1, <2>2, FeedRedatedTaken
<1>6. FeedTaken(pages', shownSeen', at', public') /\ FeedTaken(fetch'.got, fetchSeen', at', public')
  BY <1>1, <1>5 DEF FeedInv
<1>7. shownSeen' \in SUBSET (NewsFeed!Kinds \X FeedNews) /\ fetchSeen' \in SUBSET (NewsFeed!Kinds \X FeedNews)
  <2>1. <<"moved", n>> \in NewsFeed!Kinds \X FeedNews
    BY DEF NewsFeed!Kinds
  <2>2. QED
    BY <1>1, <2>1, Zenon DEF FeedInv
<1>8. fetch' \in [on : BOOLEAN, got : Seq(SUBSET FeedNews), want : Nat] /\ NewsFeed!NextPage(fetch'.got)
  BY <1>1 DEF FeedInv
<1>9. QED
  BY FeedCounts, <1>4, <1>6, <1>7, <1>8, Zenon DEF FeedInv, NewsFeed!NextPage

LEMMA FeedNoneTakenNow == ASSUME NewsFeed!NewsFeedAssumption, FeedInv, NEW S PROVE FeedTaken(<<>>, S, at, public)
<1>1. FeedDated(at, public)
  BY FeedCalendarDated DEF FeedInv
<1>2. QED
  BY <1>1, FeedNoneTaken

LEMMA FeedStepStart == ASSUME NewsFeed!NewsFeedAssumption, FeedInv, NewsFeed!Start PROVE FeedInv'
<1>1. pages \in Seq(SUBSET FeedNews) /\ Len(pages) + 1 \in Nat
  <2>1. pages \in Seq(SUBSET FeedNews)
    BY DEF FeedInv, FeedTaken, FeedFits
  <2>2. QED
    BY <2>1, LenProperties, SMT
<1>2. fetch' = [on |-> TRUE, got |-> pages, want |-> Len(pages) + 1] /\ NewsFeed!NextPage(pages)
  BY DEF NewsFeed!Start
<1>3. fetch' \in [on : BOOLEAN, got : Seq(SUBSET FeedNews), want : Nat] /\ fetch'.got = pages
  BY <1>1, <1>2
<1>4. fetchSeen' = shownSeen /\ at' = at /\ public' = public /\ changes' = changes /\ pages' = pages /\
        shownSeen' = shownSeen
  BY DEF NewsFeed!Start
<1>5. QED
  BY FeedCounts, <1>2, <1>3, <1>4, Zenon DEF FeedInv, FeedCalendar, NewsFeed!NextPage

LEMMA FeedStepRefetch == ASSUME NewsFeed!NewsFeedAssumption, FeedInv, NewsFeed!Refetch PROVE FeedInv'
<1>1. pages \in Seq(SUBSET FeedNews) /\ Len(pages) \in Nat /\ <<>> \in Seq(SUBSET FeedNews)
  <2>1. pages \in Seq(SUBSET FeedNews)
    BY DEF FeedInv, FeedTaken, FeedFits
  <2>2. QED
    BY <2>1, LenProperties, EmptySeq
<1>2. fetch' = [on |-> TRUE, got |-> <<>>, want |-> Len(pages)]
  BY DEF NewsFeed!Refetch
<1>3. fetch' \in [on : BOOLEAN, got : Seq(SUBSET FeedNews), want : Nat] /\ fetch'.got = <<>>
  BY <1>1, <1>2
<1>4. /\ fetchSeen' = fetchSeen /\ at' = at /\ public' = public /\ changes' = changes /\ pages' = pages
      /\ shownSeen' = shownSeen
  BY DEF NewsFeed!Refetch
<1>5. FeedTaken(fetch'.got, fetchSeen', at', public') /\ NewsFeed!NextPage(fetch'.got)
  BY FeedCounts, <1>3, <1>4, FeedNoneTakenNow DEF NewsFeed!NextPage
<1>6. QED
  BY FeedCounts, <1>3, <1>4, <1>5, Zenon DEF FeedInv, FeedCalendar, NewsFeed!NextPage

LEMMA FeedStepFails == ASSUME NewsFeed!NewsFeedAssumption, FeedInv, NewsFeed!FetchFails PROVE FeedInv'
<1>1. /\ fetch' = NewsFeed!Idle /\ fetchSeen' = fetchSeen /\ at' = at /\ public' = public /\ changes' = changes /\
           pages' = pages
      /\ shownSeen' = shownSeen
  BY DEF NewsFeed!FetchFails
<1>2. FeedTaken(fetch'.got, fetchSeen', at', public') /\ NewsFeed!NextPage(fetch'.got)
  BY FeedCounts, <1>1, FeedIdleIs, FeedNoneTakenNow DEF NewsFeed!NextPage
<1>3. fetch' \in [on : BOOLEAN, got : Seq(SUBSET FeedNews), want : Nat]
  BY <1>1, FeedIdleIs
<1>4. QED
  BY FeedCounts, <1>1, <1>2, <1>3, Zenon DEF FeedInv, FeedCalendar, NewsFeed!NextPage

LEMMA FeedStepRead == ASSUME NewsFeed!NewsFeedAssumption, FeedInv, NewsFeed!ReadPage PROVE FeedInv'
<1> DEFINE W == NewsFeed!Page(Len(fetch.got) + 1)
           more == Append(fetch.got, W)
           seen == IF fetch.got = <<>> THEN {} ELSE fetchSeen
<1>1. fetch.got \in Seq(SUBSET FeedNews) /\ fetch.want \in Nat /\ FeedTaken(fetch.got, fetchSeen, at, public) /\
        NewsFeed!NextPage(fetch.got)
  BY DEF FeedInv
<1>2. FeedDated(at, public) /\ public \subseteq FeedNews
  BY FeedCalendarDated DEF FeedInv, FeedCalendar
<1>3. FeedTaken(fetch.got, seen, at, public)
  BY <1>1, FeedNoneTakenNow
<1>4. W = {n \in public : Len(fetch.got) * FeedLimit <= FeedRank(at, public, n) /\
           FeedRank(at, public, n) < Len(fetch.got) * FeedLimit + FeedLimit}
  <2>1. Len(fetch.got) \in Nat
    BY <1>1, LenProperties
  <2>2. (Len(fetch.got) + 1) - 1 = Len(fetch.got)
    BY <2>1, SMT
  <2>3. QED
    BY FeedCounts, <2>2 DEF NewsFeed!Page, NewsFeed!Slice, NewsFeed!Before, FeedRank
<1>5. seen \in SUBSET (NewsFeed!Kinds \X FeedNews)
  BY DEF FeedInv
<1> HIDE DEF W, seen
<1>6. FeedTaken(more, seen, at, public)
  BY <1>1, <1>2, <1>3, <1>4, FeedOneMoreTaken
<1>7. more \in Seq(SUBSET FeedNews)
  BY <1>6 DEF FeedTaken, FeedFits
<1>8. at' = at /\ public' = public /\ changes' = changes
  BY DEF NewsFeed!ReadPage
<1>9. FeedCalendar'
  BY <1>8, Zenon DEF FeedInv, FeedCalendar
<1>10. \/ /\ NewsFeed!NextPage(more) /\ fetch' = [on |-> TRUE, got |-> more, want |-> fetch.want] /\ fetchSeen' = seen
          /\ pages' = pages /\ shownSeen' = shownSeen
       \/ fetch' = NewsFeed!Idle /\ pages' = more /\ shownSeen' = seen /\ fetchSeen' = fetchSeen
  BY Zenon DEF NewsFeed!ReadPage, W, seen
<1> HIDE DEF more
<1>11. CASE /\ NewsFeed!NextPage(more) /\ fetch' = [on |-> TRUE, got |-> more, want |-> fetch.want] /\ fetchSeen' = seen
            /\ pages' = pages /\ shownSeen' = shownSeen
  <2>1. fetch' \in [on : BOOLEAN, got : Seq(SUBSET FeedNews), want : Nat] /\ fetch'.got = more
    BY <1>1, <1>7, <1>11
  <2>2. QED
    BY FeedCounts, <1>5, <1>6, <1>8, <1>9, <1>11, <2>1, Zenon DEF FeedInv, NewsFeed!NextPage
<1>12. CASE fetch' = NewsFeed!Idle /\ pages' = more /\ shownSeen' = seen /\ fetchSeen' = fetchSeen
  <2>1. FeedTaken(fetch'.got, fetchSeen', at', public') /\ NewsFeed!NextPage(fetch'.got)
    BY FeedCounts, <1>8, <1>12, FeedIdleIs, FeedNoneTakenNow DEF NewsFeed!NextPage
  <2>2. fetch' \in [on : BOOLEAN, got : Seq(SUBSET FeedNews), want : Nat]
    BY <1>12, FeedIdleIs
  <2>3. QED
    BY FeedCounts, <1>5, <1>6, <1>8, <1>9, <1>12, <2>1, <2>2, Zenon DEF FeedInv, NewsFeed!NextPage
<1>13. QED
  BY <1>10, <1>11, <1>12

LEMMA FeedInvStep == ASSUME NewsFeed!NewsFeedAssumption, FeedInv, [NewsFeed!Next]_(NewsFeed!vars) PROVE FeedInv'
<1>1. CASE UNCHANGED NewsFeed!vars
  BY FeedCounts, <1>1, Zenon DEF NewsFeed!vars, FeedInv, FeedCalendar, NewsFeed!NextPage
<1>2. CASE NewsFeed!Next
  BY <1>2, FeedStepPublish, FeedStepWithdraw, FeedStepRedate, FeedStepStart, FeedStepRefetch, FeedStepRead,
     FeedStepFails, Zenon
     DEF NewsFeed!Next
<1>3. QED
  BY <1>1, <1>2

LEMMA FeedInvGives ==
    ASSUME NewsFeed!NewsFeedAssumption, FeedInv
    PROVE  NewsFeed!TypeOK /\ NewsFeed!OnlyAdditionsRepeat /\ NewsFeed!AdditionsHideNone
<1>1. pages \in Seq(SUBSET FeedNews) /\ fetch.got \in Seq(SUBSET FeedNews)
  BY DEF FeedInv, FeedTaken, FeedFits
<1>2. DOMAIN pages = 1..Len(pages) /\ DOMAIN fetch.got = 1..Len(fetch.got) /\ Len(pages) \in Nat
  BY <1>1, LenProperties
<1>3. NewsFeed!TypeOK
  <2>1. ASSUME NEW P, FeedFits(P) PROVE \A i \in DOMAIN P : /\ P[i] \subseteq FeedNews /\ Cardinality(P[i]) <= FeedLimit
                                                            /\ i < Len(P) => Cardinality(P[i]) = FeedLimit
    <3>1. P \in Seq(SUBSET FeedNews)
      BY <2>1 DEF FeedFits
    <3>2. DOMAIN P = 1..Len(P) /\ \A i \in 1..Len(P) : P[i] \in SUBSET FeedNews
      BY <3>1, LenProperties, ElementOfSeq
    <3>3. QED
      BY <2>1, <3>2, Zenon DEF FeedFits
  <2>2. FeedFits(pages) /\ FeedFits(fetch.got)
    BY DEF FeedInv, FeedTaken
  <2>3. \A p \in {pages, fetch.got} : \A i \in DOMAIN p : /\ p[i] \subseteq FeedNews /\ Cardinality(p[i]) <= FeedLimit
                                                          /\ i < Len(p) => Cardinality(p[i]) = FeedLimit
    BY <2>1, <2>2
  <2>4. QED
    BY FeedCounts, <2>3, Zenon DEF NewsFeed!TypeOK, FeedInv, FeedCalendar
<1>4. NewsFeed!OnlyAdditionsRepeat
  BY <1>2, Zenon DEF NewsFeed!OnlyAdditionsRepeat, FeedInv, FeedTaken, FeedApart, FeedNothingCame
<1>5. NewsFeed!AdditionsHideNone
  <2>1. SUFFICES ASSUME pages # <<>>, ~NewsFeed!NextPage(pages),
                        \A n \in FeedNews : {<<"removed", n>>, <<"moved", n>>} \cap shownSeen = {},
                        NEW n \in public, <<"added", n>> \notin shownSeen
                 PROVE  n \in NewsFeed!Shown
    BY DEF NewsFeed!AdditionsHideNone
  <2>2. FeedNothingLeft(shownSeen)
    BY <2>1 DEF FeedNothingLeft
  <2>3. Len(pages) \in 1..Len(pages)
    BY <1>1, <1>2, <2>1, EmptySeq, SMT
  <2>4. Cardinality(pages[Len(pages)]) \in Nat /\ FeedLimit \in Nat
    BY FeedCounts, <2>3 DEF FeedInv, FeedTaken, FeedFits, NewsFeed!NewsFeedAssumption
  <2>5. Cardinality(pages[Len(pages)]) < FeedLimit
    BY FeedCounts, <2>1, <2>4, SMT DEF NewsFeed!NextPage
  <2>6. \E i \in 1..Len(pages) : n \in pages[i]
    BY <2>1, <2>2, <2>5 DEF FeedInv, FeedTaken, FeedEnded
  <2>7. QED
    BY <1>2, <2>6 DEF NewsFeed!Shown
<1>6. QED
  BY <1>3, <1>4, <1>5

LEMMA FeedHolds ==
    NewsFeed!NewsFeedAssumption =>
      (NewsFeed!Init /\ [][NewsFeed!Next]_(NewsFeed!vars) =>
          []NewsFeed!TypeOK /\ []NewsFeed!OnlyAdditionsRepeat /\ []NewsFeed!AdditionsHideNone)
<1> SUFFICES ASSUME NewsFeed!NewsFeedAssumption
             PROVE  NewsFeed!Init /\ [][NewsFeed!Next]_(NewsFeed!vars) =>
                    []NewsFeed!TypeOK /\ []NewsFeed!OnlyAdditionsRepeat /\ []NewsFeed!AdditionsHideNone
  OBVIOUS
<1>1. NewsFeed!Init => FeedInv
  BY FeedInvInit
<1>2. FeedInv /\ [NewsFeed!Next]_(NewsFeed!vars) => FeedInv'
  BY FeedInvStep
<1>3. FeedInv => NewsFeed!TypeOK /\ NewsFeed!OnlyAdditionsRepeat /\ NewsFeed!AdditionsHideNone
  BY FeedInvGives
<1>4. QED
  BY <1>1, <1>2, <1>3, PTL
-----------------------------------------------------------------------------
(***************************************************************************)
(* The rows of the prices: GoldPrice.                                      *)
(***************************************************************************)
(* The table, and what an addition has read of it.                         *)
PriceShape ==
    /\ prices \in Seq(GoldPrice!Row) /\ Len(prices) \in Nat /\ today \in 0..MaxDay
    /\ \A i \in 1..Len(prices) :
          /\ prices[i].buy <= prices[i].bank /\ prices[i].buy <= prices[i].sell /\ prices[i].day <= today
          /\ \A j \in 1..Len(prices) : i < j => prices[i].day <= prices[j].day
    /\ raced \subseteq 1..Len(prices)
    /\ add \in [Slots -> [pc : {"idle", "write"}, bank : Nat, buy : Nat, sell : Nat, prev : Nat]]
    /\ \A a \in Slots : add[a].pc = "write" =>
          /\ add[a].bank \in Prices /\ add[a].buy \in Prices /\ add[a].sell \in Prices
          /\ add[a].buy <= add[a].bank /\ add[a].buy <= add[a].sell /\ add[a].prev <= Len(prices)

(* Rows of the table are chained, but for those raced.                     *)
PriceChained ==
    \A i \in (1..Len(prices)) \ raced : prices[i].change = GoldPrice!Change(GoldPrice!Bank(i), GoldPrice!Bank(i - 1))

(* What the question under way has found, and that nothing was added when  *)
(* the table is as long as at its start.                                   *)
PriceAsking ==
    /\ ask \in [pc : {"idle", "both", "latest", "previous", "answer"}, latest : Nat, prev : Nat, new : Nat]
    /\ ask.pc # "idle" => ask.new <= Len(prices)
    /\ ask.pc \in {"previous", "answer"} => ask.latest \in ask.new..Len(prices)
    /\ ask.pc \in {"latest", "answer"} =>
          /\ ask.prev <= Len(prices)
          /\ ask.new = Len(prices) => ask.prev = IF Len(prices) = 0 THEN 0 ELSE Len(prices) - 1

(* What is shown is a row of the table; of a quiet answer, with the change *)
(* from the row before.                                                    *)
PriceShows ==
    price # Nil /\ price.quiet =>
        /\ price.row \in 1..Len(prices)
        /\ price.change = GoldPrice!Change(GoldPrice!Bank(price.row), GoldPrice!Bank(price.row - 1))

PriceInv == PriceShape /\ PriceChained /\ PriceAsking /\ PriceShows

LEMMA PriceOneRow ==
    ASSUME NEW s \in Seq(GoldPrice!Row), NEW e \in GoldPrice!Row
    PROVE  /\ Append(s, e) \in Seq(GoldPrice!Row) /\ Len(Append(s, e)) = Len(s) + 1 /\ Len(s) \in Nat
           /\ \A i \in 1..Len(s) : Append(s, e)[i] = s[i]
           /\ Append(s, e)[Len(s) + 1] = e
  BY AppendProperties, LenProperties

LEMMA PriceRowsAre ==
    ASSUME NEW s \in Seq(GoldPrice!Row), NEW i \in 1..Len(s)
    PROVE  s[i] \in GoldPrice!Row /\ s[i].bank \in Prices /\ s[i].day \in 0..MaxDay
<1>1. s[i] \in GoldPrice!Row
  BY LenProperties
<1>2. QED
  BY <1>1, Zenon DEF GoldPrice!Row

LEMMA PriceInvInit == ASSUME GoldPrice!GoldPriceAssumption, GoldPrice!Init PROVE PriceInv
<1>1. prices \in Seq(GoldPrice!Row) /\ Len(prices) \in Nat /\ DOMAIN prices = 1..Len(prices) /\ prices = FirstRows /\
        raced = {}
  BY LenProperties DEF GoldPrice!GoldPriceAssumption, GoldPrice!Init
<1>2. \A i \in 1..Len(prices) : prices[i] \in GoldPrice!Row /\ prices[i].day \in 0..MaxDay
  BY <1>1, PriceRowsAre
<1>3. PriceShape
  <2>1. today = MaxDay - 1 /\ today \in 0..MaxDay
    BY SMT DEF GoldPrice!Init, GoldPrice!GoldPriceAssumption
  <2>2. \A i \in 1..Len(prices) : /\ prices[i].buy <= prices[i].bank /\ prices[i].buy <= prices[i].sell /\
                                       prices[i].day < MaxDay
                                  /\ \A j \in 1..Len(prices) : i < j => prices[i].day <= prices[j].day
    BY <1>1, Zenon DEF GoldPrice!GoldPriceAssumption
  <2>3. \A i \in 1..Len(prices) : prices[i].day <= today
    BY <2>1, <2>2, <1>2, SMT DEF GoldPrice!GoldPriceAssumption
  <2>4. /\ add \in [Slots -> [pc : {"idle", "write"}, bank : Nat, buy : Nat, sell : Nat, prev : Nat]]
        /\ \A a \in Slots : add[a].pc # "write"
    BY SMT DEF GoldPrice!Init, GoldPrice!NoAdd
  <2>5. QED
    BY <1>1, <2>1, <2>2, <2>3, <2>4, Zenon DEF PriceShape
<1>4. PriceChained
  <2> SUFFICES ASSUME NEW i \in 1..Len(prices)
               PROVE  prices[i].change = GoldPrice!Change(GoldPrice!Bank(i), GoldPrice!Bank(i - 1))
    BY DEF PriceChained
  <2>1. prices[i].change = IF i = 1 THEN Nil ELSE <<prices[i].bank, prices[i - 1].bank>>
    BY <1>1, Zenon DEF GoldPrice!GoldPriceAssumption
  <2>2. i - 1 \in 0..Len(prices) /\ (i - 1 = 0 <=> i = 1) /\ i # 0
    BY SMT
  <2>3. i - 1 # 0 => prices[i - 1].bank # Nil
    <3>1. i - 1 # 0 => i - 1 \in 1..Len(prices)
      BY <2>2, <1>1, SMT
    <3>2. i - 1 # 0 => prices[i - 1].bank \in Prices
      BY <3>1, <1>2, SMT DEF GoldPrice!Row
    <3>3. QED
      BY <3>2, Zenon DEF GoldPrice!GoldPriceAssumption
  <2>4. QED
    BY <2>1, <2>2, <2>3, Zenon DEF GoldPrice!Change, GoldPrice!Bank
<1>5. PriceAsking /\ PriceShows
  BY <1>1, SMT DEF PriceAsking, PriceShows, GoldPrice!Init, GoldPrice!NoAsk
<1>6. QED
  BY <1>3, <1>4, <1>5 DEF PriceInv

(* An addition that is written.                                            *)
LEMMA PriceWritten ==
    ASSUME GoldPrice!GoldPriceAssumption, PriceShape, NEW a \in Slots, GoldPrice!AddWrite(a)
    PROVE  LET e == [bank |-> add[a].bank, buy |-> add[a].buy, sell |-> add[a].sell,
                     change |-> GoldPrice!Change(add[a].bank, GoldPrice!Bank(add[a].prev)), day |-> today] IN
           /\ e \in GoldPrice!Row /\ prices' = Append(prices, e)
<1>1. /\ add[a].bank \in Prices /\ add[a].buy \in Prices /\ add[a].sell \in Prices /\ add[a].prev \in 0..Len(prices)
  BY SMT DEF GoldPrice!AddWrite, PriceShape
<1>2. GoldPrice!Bank(add[a].prev) \in Prices \cup {Nil}
  <2>1. \A i \in 1..Len(prices) : prices[i].bank \in Prices
    BY PriceRowsAre DEF PriceShape
  <2>2. add[a].prev = 0 \/ add[a].prev \in 1..Len(prices)
    BY <1>1, SMT DEF PriceShape
  <2>3. QED
    BY <2>1, <2>2, Zenon DEF GoldPrice!Bank
<1>3. GoldPrice!Change(add[a].bank, GoldPrice!Bank(add[a].prev)) \in (Prices \X Prices) \cup {Nil}
  BY <1>1, <1>2, Zenon DEF GoldPrice!Change
<1>4. QED
  BY <1>1, <1>3, Zenon DEF GoldPrice!AddWrite, GoldPrice!Row, PriceShape

(* A row more leaves the rows there are.                                   *)
LEMMA PriceRowsStay ==
    ASSUME GoldPrice!GoldPriceAssumption, PriceShape, NEW a \in Slots, GoldPrice!AddWrite(a)
    PROVE  /\ prices' \in Seq(GoldPrice!Row) /\ Len(prices') = Len(prices) + 1
           /\ \A i \in 1..Len(prices) : prices'[i] = prices[i]
           /\ \A i \in 0..Len(prices) : GoldPrice!Bank(i)' = GoldPrice!Bank(i)
           /\ prices'[Len(prices) + 1] = [bank |-> add[a].bank, buy |-> add[a].buy, sell |-> add[a].sell,
                                      change |-> GoldPrice!Change(add[a].bank, GoldPrice!Bank(add[a].prev)),
                                      day |-> today]
<1> DEFINE e == [bank |-> add[a].bank, buy |-> add[a].buy, sell |-> add[a].sell,
                 change |-> GoldPrice!Change(add[a].bank, GoldPrice!Bank(add[a].prev)), day |-> today]
<1>1. e \in GoldPrice!Row /\ prices' = Append(prices, e) /\ prices \in Seq(GoldPrice!Row)
  BY PriceWritten DEF PriceShape
<1> HIDE DEF e
<1>2. /\ prices' \in Seq(GoldPrice!Row) /\ Len(prices') = Len(prices) + 1 /\ Len(prices) \in Nat
      /\ \A i \in 1..Len(prices) : prices'[i] = prices[i]
      /\ prices'[Len(prices) + 1] = e
  BY <1>1, PriceOneRow
<1>3. \A i \in 0..Len(prices) : i = 0 \/ i \in 1..Len(prices)
  BY <1>2, SMT
<1>4. \A i \in 0..Len(prices) : GoldPrice!Bank(i)' = GoldPrice!Bank(i)
  BY <1>2, <1>3, Zenon DEF GoldPrice!Bank
<1>5. QED
  BY <1>2, <1>4 DEF e

LEMMA PriceShapeStep ==
    ASSUME GoldPrice!GoldPriceAssumption, PriceShape, [GoldPrice!Next]_(GoldPrice!vars)
    PROVE  PriceShape'
<1>1. ASSUME NEW a \in Slots, GoldPrice!AddWrite(a) PROVE PriceShape'
  <2> DEFINE n == Len(prices)
  <2>1. /\ prices' \in Seq(GoldPrice!Row) /\ Len(prices') = n + 1 /\ n \in Nat /\ today' = today /\ today \in 0..MaxDay
        /\ \A i \in 1..n : prices'[i] = prices[i]
        /\ prices'[n + 1] = [bank |-> add[a].bank, buy |-> add[a].buy, sell |-> add[a].sell,
                           change |-> GoldPrice!Change(add[a].bank, GoldPrice!Bank(add[a].prev)), day |-> today]
    BY <1>1, PriceRowsStay, Zenon DEF GoldPrice!AddWrite, PriceShape
  <2>2. /\ prices'[n + 1].buy = add[a].buy /\ prices'[n + 1].bank = add[a].bank /\ prices'[n + 1].sell = add[a].sell
        /\ prices'[n + 1].day = today
    BY <2>1
  <2>3. add[a].buy <= add[a].bank /\ add[a].buy <= add[a].sell
    BY <1>1, SMT DEF GoldPrice!AddWrite, PriceShape
  <2>4. \A i \in 1..n : /\ prices[i].buy <= prices[i].bank /\ prices[i].buy <= prices[i].sell /\ prices[i].day <= today
                        /\ \A j \in 1..n : i < j => prices[i].day <= prices[j].day
    BY DEF PriceShape
  <2>5. raced' \subseteq 1..(n + 1)
    <3>1. raced \subseteq 1..n /\ (raced' = raced \cup {n + 1} \/ raced' = raced)
      BY <1>1, Zenon DEF GoldPrice!AddWrite, PriceShape
    <3>2. 1..n \subseteq 1..(n + 1) /\ n + 1 \in 1..(n + 1)
      BY <2>1, SMT
    <3>3. QED
      BY <3>1, <3>2, Zenon
  <2>6. /\ add' \in [Slots -> [pc : {"idle", "write"}, bank : Nat, buy : Nat, sell : Nat, prev : Nat]]
        /\ \A b \in Slots : add'[b].pc = "write" =>
              /\ add'[b].bank \in Prices /\ add'[b].buy \in Prices /\ add'[b].sell \in Prices
              /\ add'[b].buy <= add'[b].bank /\ add'[b].buy <= add'[b].sell /\ add'[b].prev <= n + 1
    BY <1>1, SMT DEF GoldPrice!AddWrite, PriceShape, GoldPrice!NoAdd
  <2> HIDE DEF n
  <2>7. today <= today /\ \A i \in 1..(n + 1) : i \in 1..n \/ i = n + 1
    BY <2>1, SMT
  <2>8. \A i \in 1..(n + 1) : prices'[i].buy <= prices'[i].bank /\ prices'[i].buy <= prices'[i].sell /\
          prices'[i].day <= today
    BY <2>1, <2>2, <2>3, <2>4, <2>7, Zenon
  <2>9. \A i, j \in 1..(n + 1) : i < j => prices'[i].day <= prices'[j].day
    <3>1. \A i, j \in 1..(n + 1) : i < j => i \in 1..n
      BY <2>1, SMT
    <3>2. QED
      BY <2>1, <2>2, <2>4, <2>7, <3>1, Zenon
  <2>10. n + 1 \in Nat
    BY <2>1, SMT
  <2>11. QED
    BY <2>1, <2>5, <2>6, <2>8, <2>9, <2>10, Zenon DEF PriceShape
<1>2. ASSUME NEW a \in Slots, NEW i \in Inputs, GoldPrice!AddStart(a, i[1], i[2], i[3]) PROVE PriceShape'
  <2>1. i[1] \in Prices /\ i[2] \in Prices /\ i[3] \in Prices /\ Prices \subseteq Nat
    BY SMT DEF GoldPrice!GoldPriceAssumption
  <2>2. UNCHANGED <<prices, today, raced>>
    BY <1>2, Zenon DEF GoldPrice!AddStart
  <2>3. /\ add' \in [Slots -> [pc : {"idle", "write"}, bank : Nat, buy : Nat, sell : Nat, prev : Nat]]
        /\ \A b \in Slots : add'[b].pc = "write" =>
              /\ add'[b].bank \in Prices /\ add'[b].buy \in Prices /\ add'[b].sell \in Prices
              /\ add'[b].buy <= add'[b].bank /\ add'[b].buy <= add'[b].sell /\ add'[b].prev <= Len(prices)
    <3> DEFINE r == [pc |-> "write", bank |-> i[1], buy |-> i[2], sell |-> i[3], prev |-> Len(prices)]
    <3>1. /\ r \in [pc : {"idle", "write"}, bank : Nat, buy : Nat, sell : Nat, prev : Nat]
          /\ r.bank \in Prices /\ r.buy \in Prices /\ r.sell \in Prices
          /\ r.buy <= r.bank /\ r.buy <= r.sell /\ r.prev <= Len(prices)
      <4>1. i[2] <= i[1] /\ i[3] >= i[2] /\ Len(prices) \in Nat
        BY <1>2, Zenon DEF GoldPrice!AddStart, GoldPrice!validatePrices, PriceShape
      <4>2. i[1] \in Nat /\ i[2] \in Nat /\ i[3] \in Nat
        BY <2>1, Zenon
      <4> DEFINE b == i[2]
                 s == i[3]
      <4>2a. b \in Nat /\ s \in Nat /\ s >= b
        BY <4>1, <4>2, Zenon
      <4> HIDE DEF b, s
      <4>2b. b <= s /\ Len(prices) <= Len(prices)
        BY <4>1, <4>2a, SMT
      <4>3. QED
        BY <2>1, <4>1, <4>2, <4>2b, Zenon DEF b, s
    <3>2. add' = [add EXCEPT ![a] = r]
      BY <1>2, Zenon DEF GoldPrice!AddStart
    <3> HIDE DEF r
    <3>3. QED
      BY <3>1, <3>2, SMT DEF PriceShape
  <2>4. QED
    BY <2>2, <2>3, Zenon DEF PriceShape
<1>3. CASE GoldPrice!NextDay
  <2>1. UNCHANGED <<prices, raced, add>> /\ today' = today + 1 /\ today' \in 0..MaxDay /\ today \in Nat
    BY <1>3, SMT DEF GoldPrice!NextDay, PriceShape, GoldPrice!GoldPriceAssumption
  <2>2. \A i \in 1..Len(prices) : prices[i].day \in Nat
    BY PriceRowsAre, SMT DEF PriceShape
  <2>3. \A i \in 1..Len(prices) : prices[i].day <= today'
    BY <2>1, <2>2, SMT DEF PriceShape
  <2>4. QED
    BY <2>1, <2>3, Zenon DEF PriceShape
<1>4. CASE UNCHANGED <<prices, today, add, raced>>
  BY <1>4, Zenon DEF PriceShape
<1>5. QED
  BY <1>1, <1>2, <1>3, <1>4, Zenon DEF GoldPrice!Next, GoldPrice!Ask, GoldPrice!Look, GoldPrice!Answer,
       GoldPrice!AskFails, GoldPrice!vars

LEMMA PriceChainedStep ==
    ASSUME GoldPrice!GoldPriceAssumption, PriceShape, PriceChained, [GoldPrice!Next]_(GoldPrice!vars)
    PROVE  PriceChained'
<1>1. ASSUME NEW a \in Slots, GoldPrice!AddWrite(a) PROVE PriceChained'
  <2> DEFINE n == Len(prices)
  <2>1. /\ Len(prices') = n + 1 /\ n \in Nat
        /\ \A i \in 1..n : prices'[i] = prices[i]
        /\ \A i \in 0..n : GoldPrice!Bank(i)' = GoldPrice!Bank(i)
        /\ prices'[n + 1].bank = add[a].bank /\
             prices'[n + 1].change = GoldPrice!Change(add[a].bank, GoldPrice!Bank(add[a].prev))
        /\ raced' = IF add[a].prev # n THEN raced \cup {n + 1} ELSE raced
    <3>1. /\ Len(prices') = n + 1 /\ n \in Nat
          /\ \A i \in 1..n : prices'[i] = prices[i]
          /\ \A i \in 0..n : GoldPrice!Bank(i)' = GoldPrice!Bank(i)
          /\ prices'[n + 1] = [bank |-> add[a].bank, buy |-> add[a].buy, sell |-> add[a].sell,
                             change |-> GoldPrice!Change(add[a].bank, GoldPrice!Bank(add[a].prev)), day |-> today]
      BY <1>1, PriceRowsStay, Zenon DEF PriceShape
    <3>2. prices'[n + 1].bank = add[a].bank /\
            prices'[n + 1].change = GoldPrice!Change(add[a].bank, GoldPrice!Bank(add[a].prev))
      BY <3>1
    <3>3. QED
      BY <1>1, <3>1, <3>2, Zenon DEF GoldPrice!AddWrite
  <2>2. SUFFICES ASSUME NEW i \in 1..(n + 1), i \notin raced'
                 PROVE  prices'[i].change = GoldPrice!Change(GoldPrice!Bank(i)', GoldPrice!Bank(i - 1)')
    BY <2>1, Zenon DEF PriceChained, GoldPrice!Change
  <2>3. CASE i \in 1..n
    <3>1. i \in 0..n /\ i - 1 \in 0..n /\ i \notin raced
      BY <2>1, <2>2, <2>3, SMT
    <3>2. QED
      BY <2>1, <2>3, <3>1, Zenon DEF PriceChained
  <2>4. CASE i = n + 1
    <3>1. i - 1 = n /\ n \in 0..n /\ i # 0 /\ add[a].prev = n
      BY <2>1, <2>2, <2>4, SMT
    <3>2. GoldPrice!Bank(i)' = add[a].bank /\ GoldPrice!Bank(i - 1)' = GoldPrice!Bank(add[a].prev)
      BY <2>1, <2>4, <3>1, Zenon DEF GoldPrice!Bank
    <3>3. QED
      BY <2>1, <2>4, <3>2, Zenon
  <2>5. QED
    BY <2>1, <2>3, <2>4, SMT
<1>2. CASE UNCHANGED <<prices, raced>>
  BY <1>2, Zenon DEF PriceChained, GoldPrice!Change, GoldPrice!Bank
<1>3. QED
  BY <1>1, <1>2, Zenon DEF GoldPrice!Next, GoldPrice!AddStart, GoldPrice!NextDay, GoldPrice!Ask, GoldPrice!Look,
       GoldPrice!Answer, GoldPrice!AskFails, GoldPrice!vars

LEMMA PriceAskingStep ==
    ASSUME GoldPrice!GoldPriceAssumption, PriceShape, PriceAsking, [GoldPrice!Next]_(GoldPrice!vars)
    PROVE  PriceAsking'
<1>1. ASSUME NEW a \in Slots, GoldPrice!AddWrite(a) PROVE PriceAsking'
  <2>1. Len(prices') = Len(prices) + 1 /\ Len(prices) \in Nat /\ ask' = ask
    BY <1>1, PriceRowsStay, Zenon DEF GoldPrice!AddWrite, PriceShape
  <2>2. QED
    BY <2>1, SMT DEF PriceAsking
<1>2. CASE GoldPrice!Ask \/ GoldPrice!Answer \/ GoldPrice!AskFails
  <2>1. Len(prices) \in Nat /\ prices' = prices
    BY <1>2, Zenon DEF GoldPrice!Ask, GoldPrice!Answer, GoldPrice!AskFails, PriceShape
  <2>2. QED
    BY <1>2, <2>1, SMT DEF GoldPrice!Ask, GoldPrice!Answer, GoldPrice!AskFails, GoldPrice!NoAsk, PriceAsking
<1>3. ASSUME NEW which \in {"latest", "previous"}, GoldPrice!Look(which) PROVE PriceAsking'
  <2>1. Len(prices) \in Nat /\ prices' = prices
    BY <1>3, Zenon DEF GoldPrice!Look, PriceShape
  <2>2. QED
    BY <1>3, <2>1, SMT DEF GoldPrice!Look, GoldPrice!LookPrevious, PriceAsking
<1>4. CASE UNCHANGED <<prices, ask>>
  BY <1>4, Zenon DEF PriceAsking
<1>5. QED
  BY <1>1, <1>2, <1>3, <1>4, Zenon DEF GoldPrice!Next, GoldPrice!AddStart, GoldPrice!NextDay, GoldPrice!vars

LEMMA PriceShowsStep ==
    ASSUME GoldPrice!GoldPriceAssumption, PriceShape, PriceAsking, PriceShows, [GoldPrice!Next]_(GoldPrice!vars)
    PROVE  PriceShows'
<1>1. ASSUME NEW a \in Slots, GoldPrice!AddWrite(a) PROVE PriceShows'
  <2>1. Len(prices') = Len(prices) + 1 /\ Len(prices) \in Nat /\ price' = price /\
          \A i \in 0..Len(prices) : GoldPrice!Bank(i)' = GoldPrice!Bank(i)
    BY <1>1, PriceRowsStay, Zenon DEF GoldPrice!AddWrite, PriceShape
  <2>2. \A i \in 1..Len(prices) : i \in 1..Len(prices') /\ i \in 0..Len(prices) /\ i - 1 \in 0..Len(prices)
    BY <2>1, SMT
  <2>3. QED
    BY <2>1, <2>2, Zenon DEF PriceShows, GoldPrice!Change
<1>2. CASE GoldPrice!Answer
  <2>1. CASE ask.latest # 0 /\ ask.new = Len(prices)
    <3>1. ask.latest = Len(prices) /\ ask.prev = ask.latest - 1 /\ ask.latest \in 1..Len(prices)
      BY <1>2, <2>1, SMT DEF GoldPrice!Answer, PriceAsking, PriceShape
    <3>2. price'.row = ask.latest /\
            price'.change = GoldPrice!Change(GoldPrice!Bank(ask.latest), GoldPrice!Bank(ask.prev)) /\ prices' = prices
      BY <1>2, <2>1, SMT DEF GoldPrice!Answer
    <3>3. QED
      BY <3>1, <3>2, Zenon DEF PriceShows, GoldPrice!Change, GoldPrice!Bank
  <2>2. CASE ~(ask.latest # 0 /\ ask.new = Len(prices))
    <3>1. price' = Nil \/ price'.quiet = (ask.new = Len(prices))
      BY <1>2, Zenon DEF GoldPrice!Answer
    <3>2. ask.latest = 0 => price' = Nil
      BY <1>2, Zenon DEF GoldPrice!Answer
    <3>3. QED
      BY <2>2, <3>1, <3>2, Zenon DEF PriceShows
  <2>3. QED
    BY <2>1, <2>2
<1>3. CASE UNCHANGED <<prices, price>>
  BY <1>3, Zenon DEF PriceShows, GoldPrice!Change, GoldPrice!Bank
<1>4. QED
  BY <1>1, <1>2, <1>3, Zenon DEF GoldPrice!Next, GoldPrice!AddStart, GoldPrice!NextDay, GoldPrice!Ask, GoldPrice!Look,
       GoldPrice!AskFails, GoldPrice!vars

LEMMA PriceHolds ==
    GoldPrice!GoldPriceAssumption =>
      (GoldPrice!Init /\ [][GoldPrice!Next]_(GoldPrice!vars) =>
          []GoldPrice!TypeOK /\ []GoldPrice!StoredChangeChains /\ []GoldPrice!ShownChangeAgrees)
<1> SUFFICES ASSUME GoldPrice!GoldPriceAssumption
             PROVE  GoldPrice!Init /\ [][GoldPrice!Next]_(GoldPrice!vars) =>
                    []GoldPrice!TypeOK /\ []GoldPrice!StoredChangeChains /\ []GoldPrice!ShownChangeAgrees
  OBVIOUS
<1>1. GoldPrice!Init => PriceInv
  BY PriceInvInit
<1>2. PriceInv /\ [GoldPrice!Next]_(GoldPrice!vars) => PriceInv'
  BY PriceShapeStep, PriceChainedStep, PriceAskingStep, PriceShowsStep DEF PriceInv
<1>3. PriceInv => DOMAIN prices = 1..Len(prices)
  BY LenProperties DEF PriceInv, PriceShape
<1>4. PriceInv => GoldPrice!TypeOK
  BY <1>3, Zenon DEF PriceInv, PriceShape, GoldPrice!TypeOK
<1>5. PriceInv => GoldPrice!StoredChangeChains
  BY <1>3, Zenon DEF PriceInv, PriceChained, GoldPrice!StoredChangeChains
<1>6. PriceInv => GoldPrice!ShownChangeAgrees
  BY Zenon DEF PriceInv, PriceShows, PriceChained, GoldPrice!ShownChangeAgrees
<1>7. QED
  BY <1>1, <1>2, <1>4, <1>5, <1>6, PTL
-----------------------------------------------------------------------------
(***************************************************************************)
(* The page of the prices: GoldPanel.                                      *)
(***************************************************************************)
(* The cardinality the instance names is that of the library.              *)
LEMMA ChartCounts ==
    ASSUME NEW S
    PROVE  /\ GoldPanel!Cardinality(S) = Cardinality(S)
           /\ GoldPanel!IsFiniteSet(S) <=> IsFiniteSet(S)
BY DEF GoldPanel!Cardinality, Cardinality, GoldPanel!IsFiniteSet, IsFiniteSet

(* Queries and answers know rows there are, and every answer on its way or *)
(* got is not older than what the query owes.                              *)
ChartShape ==
    /\ days \in Seq(0..ChartDays) /\ Len(days) \in 1..ChartRows /\ day \in 0..ChartDays
    /\ range \in Ranges /\ page \in Nat \ {0} /\ (page - 1) * PricePageSize < Len(days)
    /\ got \in [GoldPanel!Queries -> Nat \cup {Nil}]
    /\ get \in [GoldPanel!Queries -> [pc : {"idle", "asked", "answer"}, n : Nat]]
    /\ own \in [GoldPanel!Queries -> Nat]

(* The dialog.                                                             *)
ChartDialog == modal \in [open : BOOLEAN, from : {Nil} \cup (GoldPanel!Queries \X Nat), typed : BOOLEAN]

ChartAnswers ==
    \A q \in GoldPanel!Queries :
        /\ own[q] <= Len(days) /\ get[q].n <= Len(days)
        /\ got[q] # Nil => got[q] \in 1..Len(days)
        /\ get[q].pc = "answer" => get[q].n >= 1 /\ own[q] <= get[q].n
        /\ get[q].pc = "idle" /\ got[q] # Nil => own[q] <= got[q]

(* Rows are in the order of their days.                                    *)
ChartInTime ==
    /\ \A i \in DOMAIN days : days[i] <= day
    /\ \A i, j \in DOMAIN days : i < j => days[i] <= days[j]

(* An open dialog is filled from the price the card shows.                 *)
ChartFilled == modal.open => modal.from = GoldPanel!LatestPrice(got)

ChartInv == ChartShape /\ ChartDialog /\ ChartAnswers /\ ChartInTime /\ ChartFilled

(* A row more.                                                             *)
LEMMA ChartOneMore ==
    ASSUME NEW S, NEW s \in Seq(S), NEW e \in S
    PROVE  /\ Append(s, e) \in Seq(S) /\ Len(Append(s, e)) = Len(s) + 1 /\ Len(s) \in Nat
           /\ DOMAIN s = 1..Len(s) /\ DOMAIN Append(s, e) = 1..(Len(s) + 1)
           /\ \A i \in 1..Len(s) : Append(s, e)[i] = s[i]
           /\ Append(s, e)[Len(s) + 1] = e
  BY AppendProperties, LenProperties

LEMMA ChartInvInit == ASSUME GoldPanel!GoldPanelAssumption, GoldPanel!Init PROVE ChartInv
<1> USE DEF GoldPanel!GoldPanelAssumption, GoldPanel!Init
<1>1. ChartShape
  BY SMT DEF ChartShape, GoldPanel!Asked, GoldPanel!Queries
<1>2. ChartAnswers
  BY SMT DEF ChartAnswers, GoldPanel!Asked, GoldPanel!Queries
<1>3. ChartInTime /\ ChartFilled
  BY SMT DEF ChartInTime, ChartFilled
<1>4. ChartDialog
  BY SMT DEF ChartDialog
<1>5. QED
  BY <1>1, <1>2, <1>3, <1>4 DEF ChartInv

LEMMA ChartQuotients == ASSUME NEW s \in Nat, NEW n \in Nat, n > 0 PROVE s \div n \in Nat
  BY Z3

(* The page turned to begins within the rows.                              *)
LEMMA ChartPageBegins ==
    ASSUME GoldPanel!GoldPanelAssumption, NEW r \in Nat, NEW p \in Nat \ {0}, r >= 1,
           p <= IF r <= PricePageSize THEN 1 ELSE (r + PricePageSize - 1) \div PricePageSize
    PROVE  (p - 1) * PricePageSize < r
<1> DEFINE s == r + PricePageSize - 1
           d == s \div PricePageSize
<1>1. PricePageSize \in Nat /\ PricePageSize > 0 /\ s \in Nat
  BY SMT DEF GoldPanel!GoldPanelAssumption
<1>2. CASE r <= PricePageSize
  <2>1. p = 1
    BY <1>2, SMT
  <2>2. QED
    BY <2>1, <1>1, SMT
<1>3. CASE ~(r <= PricePageSize)
  <2>1. d \in Nat /\ d * PricePageSize <= s
    BY <1>1, Z3
  <2>2. p <= d
    BY <1>3
  <2> HIDE DEF d
  <2>3. p * PricePageSize <= d * PricePageSize
    BY <1>1, <2>1, <2>2, Z3
  <2>4. (p - 1) * PricePageSize = p * PricePageSize - PricePageSize
    BY <1>1, Z3
  <2>5. QED
    BY <1>1, <2>1, <2>3, <2>4, Z3
<1>4. QED
  BY <1>2, <1>3

LEMMA ChartShapeStep ==
    ASSUME GoldPanel!GoldPanelAssumption, ChartShape, ChartAnswers, [GoldPanel!Next]_(GoldPanel!vars)
    PROVE  ChartShape'
<1> USE DEF GoldPanel!GoldPanelAssumption, ChartShape, GoldPanel!Idle, GoldPanel!Asked
<1>0. "history" \in GoldPanel!Queries
  BY DEF GoldPanel!Queries
<1>1. CASE GoldPanel!OthersAdd
  <2>1. days' \in Seq(0..ChartDays) /\ Len(days') = Len(days) + 1
    BY <1>1, ChartOneMore, Zenon DEF GoldPanel!OthersAdd
  <2>2. QED
    BY <1>1, <2>1, SMT DEF GoldPanel!OthersAdd
<1>2. CASE GoldPanel!NextDay
  BY <1>2, SMT DEF GoldPanel!NextDay
<1>3. ASSUME NEW q \in GoldPanel!Queries, GoldPanel!Ask(q) PROVE ChartShape'
  BY <1>3, SMT DEF GoldPanel!Ask
<1>4. ASSUME NEW q \in GoldPanel!Queries, GoldPanel!Read(q) PROVE ChartShape'
  BY <1>4, SMT DEF GoldPanel!Read
<1>5. ASSUME NEW q \in GoldPanel!Queries, GoldPanel!Answered(q) PROVE ChartShape'
  BY <1>5, SMT DEF GoldPanel!Answered
<1>6. ASSUME NEW q \in GoldPanel!Queries, GoldPanel!Failed(q) PROVE ChartShape'
  BY <1>6, SMT DEF GoldPanel!Failed
<1>7. ASSUME NEW p \in 1..GoldPanel!Pages, GoldPanel!Turn(p) PROVE ChartShape'
  <2>1. GoldPanel!Rows("history") \in Nat /\ GoldPanel!Rows("history") <= Len(days)
    BY <1>0, SMT DEF ChartAnswers, GoldPanel!Rows
  <2>2. p \in Nat \ {0} /\ p <= GoldPanel!Pages
    <3> DEFINE s == GoldPanel!Rows("history") + PricePageSize - 1
    <3>1. s \in Nat /\ PricePageSize \in Nat /\ PricePageSize > 0
      BY <2>1, SMT
    <3> HIDE DEF s
    <3>2. s \div PricePageSize \in Nat
      BY <3>1, ChartQuotients
    <3>3. GoldPanel!Pages \in Nat
      BY <3>2, Zenon DEF GoldPanel!Pages, s
    <3>4. QED
      BY <3>3, SMT
  <2>3. (p - 1) * PricePageSize < Len(days)
    <3>1. CASE GoldPanel!Rows("history") >= 1
      <4>1. (p - 1) * PricePageSize < GoldPanel!Rows("history")
        BY <3>1, <2>1, <2>2, ChartPageBegins, Zenon DEF GoldPanel!Pages
      <4> DEFINE o == (p - 1) * PricePageSize
      <4>2. o \in Int
        BY <2>2, SMT
      <4> HIDE DEF o
      <4>3. QED
        BY <4>1, <4>2, <2>1, SMT DEF o
    <3>2. CASE GoldPanel!Rows("history") = 0
      BY <3>2, <2>1, <2>2, SMT DEF GoldPanel!Pages
    <3>3. QED
      BY <3>1, <3>2, <2>1, SMT
  <2>4. QED
    BY <1>0, <1>7, <2>2, <2>3, SMT DEF GoldPanel!Turn
<1>8. ASSUME NEW r \in Ranges, GoldPanel!SetRange(r) PROVE ChartShape'
  BY <1>8, SMT DEF GoldPanel!SetRange
<1>9. CASE GoldPanel!Open \/ GoldPanel!Type \/ GoldPanel!Close \/ GoldPanel!Submit \/ GoldPanel!PutFailed
  BY <1>9, Zenon DEF GoldPanel!Open, GoldPanel!Type, GoldPanel!Close, GoldPanel!Submit, GoldPanel!PutFailed
<1>10. CASE GoldPanel!Write
  <2>1. days' \in Seq(0..ChartDays) /\ Len(days') = Len(days) + 1
    BY <1>10, ChartOneMore, Zenon DEF GoldPanel!Write
  <2>2. QED
    BY <1>10, <2>1, SMT DEF GoldPanel!Write
<1>11. CASE GoldPanel!Saved
  BY <1>11, SMT DEF GoldPanel!Saved
<1>12. CASE UNCHANGED GoldPanel!vars
  BY <1>12 DEF GoldPanel!vars
<1>13. QED
  BY <1>1, <1>2, <1>3, <1>4, <1>5, <1>6, <1>7, <1>8, <1>9, <1>10, <1>11, <1>12, Zenon DEF GoldPanel!Next

LEMMA ChartAnswersStep ==
    ASSUME GoldPanel!GoldPanelAssumption, ChartShape, ChartAnswers, [GoldPanel!Next]_(GoldPanel!vars)
    PROVE  ChartAnswers'
<1> USE DEF ChartShape, ChartAnswers, GoldPanel!Idle, GoldPanel!Asked, GoldPanel!GoldPanelAssumption
<1>0. "history" \in GoldPanel!Queries
  BY DEF GoldPanel!Queries
<1>1. CASE GoldPanel!OthersAdd \/ GoldPanel!Write
  <2>0. days' = Append(days, day) /\ UNCHANGED <<get, got, own>>
    BY <1>1, Zenon DEF GoldPanel!OthersAdd, GoldPanel!Write
  <2>1. Len(days') = Len(days) + 1 /\ UNCHANGED <<get, got, own>>
    BY <2>0, ChartOneMore
  <2>2. QED
    BY <2>1, SMT
<1>3. ASSUME NEW q \in GoldPanel!Queries, GoldPanel!Ask(q) PROVE ChartAnswers'
  BY <1>3, SMT DEF GoldPanel!Ask
<1>4. ASSUME NEW q \in GoldPanel!Queries, GoldPanel!Read(q) PROVE ChartAnswers'
  BY <1>4, SMT DEF GoldPanel!Read
<1>5. ASSUME NEW q \in GoldPanel!Queries, GoldPanel!Answered(q) PROVE ChartAnswers'
  BY <1>5, SMT DEF GoldPanel!Answered
<1>6. ASSUME NEW q \in GoldPanel!Queries, GoldPanel!Failed(q) PROVE ChartAnswers'
  BY <1>6, SMT DEF GoldPanel!Failed
<1>7. ASSUME NEW p \in 1..GoldPanel!Pages, GoldPanel!Turn(p) PROVE ChartAnswers'
  BY <1>0, <1>7, SMT DEF GoldPanel!Turn
<1>8. CASE GoldPanel!NextDay \/ (\E r \in Ranges : GoldPanel!SetRange(r)) \/ GoldPanel!Open \/ GoldPanel!Type \/
             GoldPanel!Close \/ GoldPanel!Submit \/ GoldPanel!PutFailed \/ UNCHANGED GoldPanel!vars
  BY <1>8, Zenon DEF GoldPanel!NextDay, GoldPanel!SetRange, GoldPanel!Open, GoldPanel!Type, GoldPanel!Close,
       GoldPanel!Submit, GoldPanel!PutFailed, GoldPanel!vars
<1>9. CASE GoldPanel!Saved
  <2>1. \A q \in GoldPanel!Queries : get'[q] = GoldPanel!Asked /\ own'[q] = Len(days) /\ got'[q] = got[q] /\
          days' = days
    BY <1>9, Zenon DEF GoldPanel!Saved, GoldPanel!Invalidated, GoldPanel!Queries
  <2>2. QED
    BY <2>1, SMT
<1>10. QED
  BY <1>1, <1>3, <1>4, <1>5, <1>6, <1>7, <1>8, <1>9, Zenon DEF GoldPanel!Next

LEMMA ChartInTimeStep ==
    ASSUME GoldPanel!GoldPanelAssumption, ChartShape, ChartInTime, [GoldPanel!Next]_(GoldPanel!vars)
    PROVE  ChartInTime'
<1> USE DEF ChartShape, ChartInTime, GoldPanel!GoldPanelAssumption
<1>1. CASE GoldPanel!OthersAdd \/ GoldPanel!Write
  <2>1. /\ Len(days) \in Nat /\ DOMAIN days = 1..Len(days) /\ DOMAIN days' = 1..(Len(days) + 1) /\ day' = day
        /\ \A i \in 1..Len(days) : days'[i] = days[i]
        /\ days'[Len(days) + 1] = day
    <3>1. days' = Append(days, day) /\ day' = day
      BY <1>1, Zenon DEF GoldPanel!OthersAdd, GoldPanel!Write
    <3>2. QED
      BY <3>1, ChartOneMore
  <2>2. \A i \in DOMAIN days' : (i \in 1..Len(days) /\ days'[i] = days[i]) \/ (i = Len(days) + 1 /\ days'[i] = day)
    BY <2>1, SMT
  <2>3. day <= day
    BY SMT
  <2>4. \A i \in DOMAIN days' : days'[i] <= day'
    BY <2>1, <2>2, <2>3, Zenon
  <2>5. ASSUME NEW i \in DOMAIN days', NEW j \in DOMAIN days', i < j PROVE days'[i] <= days'[j]
    <3>1. i \in 1..Len(days)
      BY <2>1, <2>5, SMT
    <3>2. QED
      BY <2>1, <2>2, <2>5, <3>1, Zenon
  <2>6. QED
    BY <2>4, <2>5, Zenon
<1>2. CASE GoldPanel!NextDay
  <2>1. DOMAIN days = 1..Len(days) /\ \A i \in DOMAIN days : days[i] \in Nat
    BY SMT
  <2>2. days' = days /\ day' = day + 1 /\ day \in Nat
    BY <1>2, SMT DEF GoldPanel!NextDay
  <2>3. QED
    BY <2>1, <2>2, SMT
<1>3. CASE UNCHANGED <<days, day>>
  BY <1>3
<1>4. QED
  BY <1>1, <1>2, <1>3, Zenon DEF GoldPanel!Next, GoldPanel!Ask, GoldPanel!Read, GoldPanel!Answered, GoldPanel!Failed,
       GoldPanel!Turn, GoldPanel!SetRange, GoldPanel!Open, GoldPanel!Type, GoldPanel!Close, GoldPanel!Submit,
       GoldPanel!PutFailed, GoldPanel!Saved, GoldPanel!vars

LEMMA ChartDialogStep == ASSUME ChartShape, ChartDialog, [GoldPanel!Next]_(GoldPanel!vars) PROVE ChartDialog'
<1>1. \A g \in [GoldPanel!Queries -> Nat \cup {Nil}] : GoldPanel!LatestPrice(g)
        \in {Nil} \cup (GoldPanel!Queries \X Nat)
  BY SMT DEF GoldPanel!LatestPrice, GoldPanel!Queries
<1>2. ASSUME NEW q \in GoldPanel!Queries, GoldPanel!Answered(q) PROVE ChartDialog'
  <2>1. got' \in [GoldPanel!Queries -> Nat \cup {Nil}]
    BY <1>2, SMT DEF GoldPanel!Answered, ChartShape
  <2>2. GoldPanel!LatestPrice(got') \in {Nil} \cup (GoldPanel!Queries \X Nat)
    BY <1>1, <2>1
  <2> DEFINE c == GoldPanel!LatestPrice(got')
  <2>3. modal' = GoldPanel!Fill(modal, c) /\ c \in {Nil} \cup (GoldPanel!Queries \X Nat)
    BY <1>2, <2>2, Zenon DEF GoldPanel!Answered
  <2> HIDE DEF c
  <2>4. QED
    BY <2>3, SMT DEF GoldPanel!Fill, ChartDialog
<1>3. CASE GoldPanel!Open
  <2> DEFINE c == GoldPanel!LatestPrice(got)
  <2>1. modal' = [open |-> TRUE, from |-> c, typed |-> FALSE] /\ c \in {Nil} \cup (GoldPanel!Queries \X Nat)
    BY <1>1, <1>3, Zenon DEF GoldPanel!Open, ChartShape
  <2> HIDE DEF c
  <2>2. QED
    BY <2>1, SMT DEF ChartDialog
<1>4. CASE GoldPanel!Type \/ GoldPanel!Close \/ GoldPanel!Saved
  <2>1. modal.open \in BOOLEAN /\ modal.typed \in BOOLEAN /\ modal.from \in {Nil} \cup (GoldPanel!Queries \X Nat)
    BY SMT DEF ChartDialog
  <2>2. \/ modal' = [open |-> FALSE, from |-> modal.from, typed |-> modal.typed]
        \/ modal' = [open |-> modal.open, from |-> modal.from, typed |-> TRUE]
    BY <1>4, SMT DEF GoldPanel!Type, GoldPanel!Close, GoldPanel!Saved, ChartDialog
  <2> DEFINE Dialogs == [open : BOOLEAN, from : {Nil} \cup (GoldPanel!Queries \X Nat), typed : BOOLEAN]
  <2>3. [open |-> FALSE, from |-> modal.from, typed |-> modal.typed] \in Dialogs
    BY <2>1
  <2>4. [open |-> modal.open, from |-> modal.from, typed |-> TRUE] \in Dialogs
    BY <2>1
  <2>5. modal' \in Dialogs
    BY <2>2, <2>3, <2>4, Zenon
  <2>6. QED
    BY <2>5 DEF ChartDialog
<1>5. CASE UNCHANGED modal
  BY <1>5 DEF ChartDialog
<1>6. QED
  BY <1>2, <1>3, <1>4, <1>5, Zenon DEF GoldPanel!Next, GoldPanel!OthersAdd, GoldPanel!NextDay, GoldPanel!Ask,
       GoldPanel!Read, GoldPanel!Failed, GoldPanel!Turn, GoldPanel!SetRange, GoldPanel!Submit, GoldPanel!Write,
       GoldPanel!PutFailed, GoldPanel!vars

LEMMA ChartFilledStep == ASSUME ChartDialog, ChartFilled, [GoldPanel!Next]_(GoldPanel!vars) PROVE ChartFilled'
<1>1. ASSUME NEW q \in GoldPanel!Queries, GoldPanel!Answered(q) PROVE ChartFilled'
  <2>1. modal' = GoldPanel!Fill(modal, GoldPanel!LatestPrice(got')) /\ page' = page
    BY <1>1, Zenon DEF GoldPanel!Answered
  <2>2. \A m, c : GoldPanel!Fill(m, c).open => GoldPanel!Fill(m, c).from = c
    BY SMT DEF GoldPanel!Fill
  <2>3. QED
    BY <2>1, <2>2, Zenon DEF ChartFilled, GoldPanel!LatestPrice
<1>2. CASE GoldPanel!Open \/ GoldPanel!Type \/ GoldPanel!Close \/ GoldPanel!Saved
  <2>1. UNCHANGED <<got, page>>
    BY <1>2, Zenon DEF GoldPanel!Open, GoldPanel!Type, GoldPanel!Close, GoldPanel!Saved
  <2>2. CASE GoldPanel!Open
    BY <2>1, <2>2, Zenon DEF GoldPanel!Open, ChartFilled, GoldPanel!LatestPrice
  <2>3. CASE GoldPanel!Type \/ GoldPanel!Close \/ GoldPanel!Saved
    <3>1. modal'.open => modal.open /\ modal'.from = modal.from
      BY <2>3, SMT DEF GoldPanel!Type, GoldPanel!Close, GoldPanel!Saved, ChartDialog
    <3>2. QED
      BY <2>1, <3>1, Zenon DEF ChartFilled, GoldPanel!LatestPrice
  <2>4. QED
    BY <1>2, <2>2, <2>3
<1>3. ASSUME NEW p \in 1..GoldPanel!Pages, GoldPanel!Turn(p) PROVE ChartFilled'
  BY <1>3, Zenon DEF GoldPanel!Turn, ChartFilled
<1>4. CASE UNCHANGED <<modal, got, page>>
  BY <1>4, Zenon DEF ChartFilled, GoldPanel!LatestPrice
<1>5. QED
  BY <1>1, <1>2, <1>3, <1>4, Zenon DEF GoldPanel!Next, GoldPanel!OthersAdd, GoldPanel!NextDay, GoldPanel!Ask,
       GoldPanel!Read, GoldPanel!Failed, GoldPanel!SetRange, GoldPanel!Submit, GoldPanel!Write, GoldPanel!PutFailed,
       GoldPanel!vars

LEMMA ChartInvStep == ASSUME GoldPanel!GoldPanelAssumption, ChartInv, [GoldPanel!Next]_(GoldPanel!vars) PROVE ChartInv'
BY ChartShapeStep, ChartDialogStep, ChartAnswersStep, ChartInTimeStep, ChartFilledStep DEF ChartInv

(* The rows of a range are the last ones, as many as there are.            *)
LEMMA ChartRangeIsLast ==
    ASSUME GoldPanel!GoldPanelAssumption, ChartShape, ChartInTime, NEW r \in 0..Len(days),
           Cardinality(GoldPanel!InRange(r)) <= ChartLimit
    PROVE  \A i \in GoldPanel!InRange(r) : i + ChartLimit > r
<1>1. /\ Len(days) \in Nat /\ DOMAIN days = 1..Len(days) /\ day \in Nat /\ range \in Nat /\ ChartLimit \in Nat
      /\ \A k \in 1..Len(days) : days[k] \in Nat
  BY SMT DEF GoldPanel!GoldPanelAssumption, ChartShape
<1>0. r \in Nat /\ \A i \in GoldPanel!InRange(r) : i \in Nat
  <2>1. r \in Nat
    BY <1>1, SMT
  <2>2. \A i \in 1..r : i \in Nat
    BY <2>1, SMT
  <2>3. QED
    BY <2>1, <2>2, Zenon DEF GoldPanel!InRange
<1> SUFFICES ASSUME NEW i \in GoldPanel!InRange(r), i + ChartLimit <= r PROVE FALSE
  <2>1. \A i \in Nat : i + ChartLimit <= r \/ i + ChartLimit > r
    BY <1>0, <1>1, SMT
  <2>2. QED
    BY <1>0, <2>1, Zenon
<1>2. i \in 1..r /\ days[i] + range >= day
  BY DEF GoldPanel!InRange
<1>3. i..r \subseteq GoldPanel!InRange(r)
  <2>1. ASSUME NEW k \in i..r PROVE k \in 1..r /\ days[k] >= days[i] /\ days[k] \in Nat /\ days[i] \in Nat
    <3>1. k \in 1..r /\ k \in 1..Len(days) /\ i \in 1..Len(days) /\ (i = k \/ i < k)
      BY <1>1, <1>2, SMT
    <3>2. days[k] \in Nat /\ days[i] \in Nat
      BY <1>1, <3>1, Zenon
    <3>3. i < k => days[i] <= days[k]
      BY <1>1, <3>1, Zenon DEF ChartInTime
    <3>4. QED
      BY <3>1, <3>2, <3>3, SMT
  <2>2. QED
    BY <1>1, <1>2, <2>1, SMT DEF GoldPanel!InRange
<1>4. IsFiniteSet(1..r) /\ GoldPanel!InRange(r) \subseteq 1..r
  BY FS_Interval DEF GoldPanel!InRange
<1>5. IsFiniteSet(GoldPanel!InRange(r)) /\ Cardinality(GoldPanel!InRange(r)) \in Nat
  BY <1>4, FS_Subset, FS_CardinalityType
<1>6. Cardinality(i..r) = r - i + 1 /\ Cardinality(i..r) <= Cardinality(GoldPanel!InRange(r))
  BY <1>2, <1>3, <1>5, FS_Subset, FS_Interval, SMT
<1>7. QED
  BY <1>1, <1>2, <1>5, <1>6, SMT

LEMMA ChartHolds ==
    GoldPanel!GoldPanelAssumption =>
      (GoldPanel!Init /\ [][GoldPanel!Next]_(GoldPanel!vars) =>
          []GoldPanel!TypeOK /\ []GoldPanel!OwnPriceEverywhere /\ []GoldPanel!ChartHasItsRange /\ GoldPanel!TypedStays)
<1> SUFFICES ASSUME GoldPanel!GoldPanelAssumption
             PROVE  GoldPanel!Init /\ [][GoldPanel!Next]_(GoldPanel!vars) =>
                    []GoldPanel!TypeOK /\ []GoldPanel!OwnPriceEverywhere /\ []GoldPanel!ChartHasItsRange /\
                        GoldPanel!TypedStays
  OBVIOUS
<1> DEFINE Stays == modal.open /\ modal'.open /\ modal.typed /\ ~modal'.typed =>
                      got["latest"] = Nil \/ got'["latest"] # got["latest"]
<1>1. GoldPanel!Init => ChartInv
  BY ChartInvInit
<1>2. ChartInv /\ [GoldPanel!Next]_(GoldPanel!vars) => ChartInv'
  BY ChartInvStep
<1>3. ChartInv => GoldPanel!TypeOK
  BY SMT DEF ChartInv, ChartShape, ChartAnswers, GoldPanel!TypeOK
<1>4. ChartInv => GoldPanel!OwnPriceEverywhere
  BY SMT DEF ChartInv, ChartShape, ChartAnswers, GoldPanel!OwnPriceEverywhere, GoldPanel!Queries
<1>5. ChartInv => GoldPanel!ChartHasItsRange
  <2> SUFFICES ASSUME ChartInv, got["records"] # Nil,
                      Cardinality(GoldPanel!InRange(GoldPanel!Rows("records"))) <= ChartLimit
               PROVE  GoldPanel!Charted = GoldPanel!InRange(GoldPanel!Rows("records"))
    BY ChartCounts DEF GoldPanel!ChartHasItsRange
  <2>1. GoldPanel!Rows("records") \in 0..Len(days)
    BY SMT DEF ChartInv, ChartShape, ChartAnswers, GoldPanel!Rows, GoldPanel!Queries
  <2>2. \A i \in GoldPanel!InRange(GoldPanel!Rows("records")) : i + ChartLimit > GoldPanel!Rows("records")
    BY <2>1, ChartRangeIsLast, Zenon DEF ChartInv
  <2>3. QED
    BY <2>2, Zenon DEF GoldPanel!Charted
<1>6. ChartInv /\ [GoldPanel!Next]_(GoldPanel!vars) => [Stays]_(GoldPanel!vars)
  <2> SUFFICES ASSUME ChartInv, GoldPanel!Next, modal.open, modal'.open, modal.typed, ~modal'.typed, got["latest"] # Nil
               PROVE  got'["latest"] # got["latest"]
    BY Zenon
  <2>1. ASSUME NEW q \in GoldPanel!Queries, GoldPanel!Answered(q) PROVE got'["latest"] # got["latest"]
    <3>1. modal.from = <<"latest", got["latest"]>>
      BY Zenon DEF ChartInv, ChartFilled, GoldPanel!LatestPrice
    <3>2. got'["latest"] = got["latest"] => GoldPanel!LatestPrice(got') = <<"latest", got["latest"]>>
      BY Zenon DEF GoldPanel!LatestPrice
    <3>3. modal.from # GoldPanel!LatestPrice(got')
      BY <2>1, Zenon DEF GoldPanel!Answered, GoldPanel!Fill
    <3>4. QED
      BY <3>1, <3>2, <3>3, Zenon
  <2>2. ~GoldPanel!Open /\ ~GoldPanel!Close /\ ~GoldPanel!Saved /\ ~GoldPanel!Type /\ modal' # modal
    BY SMT DEF GoldPanel!Open, GoldPanel!Close, GoldPanel!Saved, GoldPanel!Type, ChartInv, ChartDialog
  <2>3. QED
    BY <2>1, <2>2, Zenon DEF GoldPanel!Next, GoldPanel!OthersAdd, GoldPanel!NextDay, GoldPanel!Ask, GoldPanel!Read,
         GoldPanel!Failed, GoldPanel!Turn, GoldPanel!SetRange, GoldPanel!Submit, GoldPanel!Write, GoldPanel!PutFailed
<1>7. GoldPanel!TypedStays <=> [][Stays]_(GoldPanel!vars)
  BY PTL DEF GoldPanel!TypedStays
<1> HIDE DEF Stays
<1>8. QED
  BY <1>1, <1>2, <1>3, <1>4, <1>5, <1>6, <1>7, PTL
-----------------------------------------------------------------------------
(***************************************************************************)
(* The chat of the backend: Chat.                                          *)
(***************************************************************************)
(* The cardinality the instance names is that of the library.              *)
LEMMA GateCounts ==
    ASSUME NEW S
    PROVE  /\ Chat!Cardinality(S) = Cardinality(S)
           /\ Chat!IsFiniteSet(S) <=> IsFiniteSet(S)
BY DEF Chat!Cardinality, Cardinality, Chat!IsFiniteSet, IsFiniteSet

GateFroms == {"USER", "ADMIN"}
GateMessages == [u : Customers, from : GateFroms]
GateThreads == [status : {"NONE", "OPEN", "CLOSED"}, last : Nat, unread : Nat]
GateCalls == [pc : {"idle", "create", "touch", "emit"}, u : Customers \cup {Nil}, from : GateFroms, id : Nat]
GateLinks == [link : {"new", "up", "down"}, pc : {"idle", "find", "set"}, u : Customers \cup {Nil}]

(* Rows and calls; a call is of a customer and knows a message there was.  *)
GateShape ==
    /\ stored \in 0..MaxStored /\ message \in [1..stored -> GateMessages \cup {Nil}]
    /\ thread \in [Customers -> GateThreads] /\ \A u \in Customers : thread[u].last <= stored
    /\ sending \in [Slots -> GateCalls]
    /\ \A c \in Slots : sending[c].id <= stored /\ (sending[c].pc # "idle" => sending[c].u \in Customers)

GateBounds == banned \subseteq Customers /\ gold \subseteq Customers /\ turns \in 0..MaxTurns

(* A socket is registered once, after it was looked up and let in.         *)
GateSock ==
    /\ socket \in [Sockets -> GateLinks] /\ clients \subseteq Sockets
    /\ \A k \in Sockets :
        /\ socket[k].link = "new" => socket[k].pc = "idle" /\ k \notin clients
        /\ socket[k].link # "new" => socket[k].u \in Customers
        /\ socket[k].pc # "idle" => k \notin clients
        /\ socket[k].pc = "set" => k \in unbanned
        /\ k \in clients => k \in unbanned /\ (socket[k].link = "up" \/ k \in early)

(* Each unread message is a stored one, and so is each still to be put on  *)
(* its thread.                                                             *)
GateTouching == {c \in Slots : sending[c].pc = "touch"}
GateCounted == \A u \in Customers : thread[u].unread + Cardinality(GateTouching) <= stored

(* What is known of a customer whose messages do not overlap.              *)
GateMine(c, u) == sending[c].pc # "idle" /\ sending[c].u = u
GateAtTouch(c, u) == sending[c].pc = "touch" /\ sending[c].u = u
GateIsLast(u, i) == i \in Chat!Of(u) /\ \A j \in Chat!Of(u) : j <= i
GateOneByOne(u) == \A c, d \in Slots : GateMine(c, u) /\ GateMine(d, u) => c = d
GateSettled(u) ==
    (\A c \in Slots : ~GateAtTouch(c, u)) =>
        /\ IF Chat!Of(u) = {} THEN thread[u].last = 0 ELSE GateIsLast(u, thread[u].last)
        /\ thread[u].unread <= Cardinality(Chat!SinceAnswer(u))
GateHalfway(u) ==
    \A c \in Slots : GateAtTouch(c, u) =>
        /\ GateIsLast(u, sending[c].id) /\ message[sending[c].id].from = sending[c].from
        /\ sending[c].from = "USER" => thread[u].unread + 1 <= Cardinality(Chat!SinceAnswer(u))
GateSent(u) ==
    \A i \in Chat!Of(u) \ Chat!Answers(u) :
        \/ i \in emitted
        \/ \E c \in Slots : GateMine(c, u) /\ sending[c].pc # "create" /\ sending[c].id = i
GateUpTo(u) == GateOneByOne(u) /\ GateSettled(u) /\ GateHalfway(u) /\ GateSent(u)
GateUpToDate == \A u \in Customers \ overlapping : GateUpTo(u)

GateInv == GateShape /\ GateBounds /\ GateSock /\ GateCounted /\ GateUpToDate

LEMMA GateShapeStep == ASSUME Chat!ChatAssumption, GateShape, GateSock, [Chat!Next]_(Chat!vars) PROVE GateShape'
<1> USE DEF Chat!ChatAssumption, GateShape, GateFroms, GateMessages, GateThreads, GateCalls
<1>1. ASSUME NEW c \in Slots, Chat!Create(c) PROVE GateShape'
  <2>1. sending[c].u \in Customers /\ sending[c].from \in GateFroms /\ stored \in Nat
    BY <1>1, SMT DEF Chat!Create
  <2>2. stored' = stored + 1 /\ stored' \in 0..MaxStored /\ thread' = thread
    BY <1>1, SMT DEF Chat!Create
  <2>3. message' \in [1..stored' -> GateMessages \cup {Nil}]
    BY <1>1, <2>1, <2>2, SMT DEF Chat!Create
  <2>4. sending' = [sending EXCEPT ![c] = [pc |-> "touch", u |-> sending[c].u, from |-> sending[c].from,
                                           id |-> stored']]
    BY <1>1, SMT DEF Chat!Create
  <2>5. /\ sending' \in [Slots -> GateCalls]
        /\ \A d \in Slots : sending'[d].id <= stored' /\ (sending'[d].pc # "idle" => sending'[d].u \in Customers)
    BY <2>1, <2>2, <2>4, SMT
  <2>6. \A u \in Customers : thread'[u].last <= stored'
    BY <2>1, <2>2, SMT
  <2>7. QED
    BY <2>2, <2>3, <2>5, <2>6, Zenon
<1>2. ASSUME NEW c \in Slots, Chat!Touch(c) PROVE GateShape'
  <2>1. sending[c].u \in Customers /\ stored \in Nat /\ UNCHANGED <<stored, message>>
    BY <1>2, SMT DEF Chat!Touch
  <2>2. thread' \in [Customers -> GateThreads] /\ \A u \in Customers : thread'[u].last <= stored
    BY <1>2, <2>1, SMT DEF Chat!Touch, Chat!Touched
  <2>3. sending' \in [Slots -> GateCalls]
        /\ \A d \in Slots : sending'[d].id <= stored' /\ (sending'[d].pc # "idle" => sending'[d].u \in Customers)
    <3>1. Chat!NoCall \in GateCalls /\ Chat!NoCall.id = 0 /\ Chat!NoCall.pc = "idle"
      BY SMT DEF Chat!NoCall
    <3> DEFINE r == [pc |-> "emit", u |-> sending[c].u, from |-> sending[c].from, id |-> sending[c].id]
    <3>2. sending[c].from \in GateFroms /\ sending[c].id \in Nat /\ sending[c].id <= stored
      BY SMT
    <3>3. r \in GateCalls /\ r.id = sending[c].id /\ r.u = sending[c].u
      BY <2>1, <3>2, Zenon
    <3>4. PICK n \in {Chat!NoCall, r} : sending' = [sending EXCEPT ![c] = n]
      <4>1. sending' = [sending EXCEPT ![c] = IF sending[c].from = "ADMIN" THEN Chat!NoCall ELSE r]
        BY <1>2, Zenon DEF Chat!Touch
      <4>2. CASE sending[c].from = "ADMIN"
        BY <4>1, <4>2, Zenon
      <4>3. CASE sending[c].from # "ADMIN"
        BY <4>1, <4>3, Zenon
      <4>4. QED
        BY <4>2, <4>3
    <3>5. n \in GateCalls /\ n.id <= stored /\ (n.pc # "idle" => n.u \in Customers)
      <4>1. r.id <= stored /\ r.u \in Customers
        BY <2>1, <3>2, <3>3, Zenon
      <4>2. Chat!NoCall.id <= stored
        BY <2>1, <3>1, SMT
      <4>3. QED
        BY <3>1, <3>3, <4>1, <4>2, Zenon
    <3> HIDE DEF r, GateCalls
    <3>6. QED
      BY <2>1, <3>4, <3>5, SMT
  <2>4. QED
    BY <2>1, <2>2, <2>3, Zenon
<1>3. ASSUME NEW c \in Slots, Chat!Emit(c) \/ Chat!Fail(c) PROVE GateShape'
  <2>1. Chat!NoCall \in GateCalls /\ Chat!NoCall.id = 0 /\ Chat!NoCall.pc = "idle"
    BY SMT DEF Chat!NoCall
  <2>2. sending' = [sending EXCEPT ![c] = Chat!NoCall] /\ UNCHANGED <<stored, message, thread>>
    BY <1>3, Zenon DEF Chat!Emit, Chat!Fail, Chat!rows
  <2> HIDE DEF GateCalls
  <2>3. QED
    BY <2>1, <2>2, SMT
<1>4. ASSUME NEW c \in Slots, NEW u \in Customers, NEW f \in GateFroms, Chat!Starts(c, u, f), UNCHANGED Chat!rows
      PROVE  GateShape'
  BY <1>4, SMT DEF Chat!Starts, Chat!rows
<1>5. ASSUME NEW c \in Slots, NEW k \in Sockets, Chat!Send(c, k) PROVE GateShape'
  <2>1. socket[k].u \in Customers /\ Chat!Starts(c, socket[k].u, "USER") /\ UNCHANGED Chat!rows
    BY <1>5, SMT DEF Chat!Send, GateSock
  <2>2. QED
    BY <2>1, <1>4
<1>6. ASSUME NEW c \in Slots, NEW u \in Customers, Chat!AdminSend(c, u) PROVE GateShape'
  BY <1>4, <1>6, Zenon DEF Chat!AdminSend, GateFroms
<1>7. ASSUME NEW u \in Customers, Chat!MarkRead(u) PROVE GateShape'
  BY <1>7, SMT DEF Chat!MarkRead, Chat!Turn
<1>8. ASSUME NEW u \in Customers, NEW s \in {"OPEN", "CLOSED"}, Chat!SetStatus(u, s) PROVE GateShape'
  BY <1>8, SMT DEF Chat!SetStatus, Chat!Turn
<1>9. ASSUME NEW i \in 1..stored, Chat!DeleteMessage(i) PROVE GateShape'
  BY <1>9, SMT DEF Chat!DeleteMessage, Chat!Turn
<1>10. CASE UNCHANGED <<stored, message, thread, sending>>
  BY <1>10, Zenon
<1>11. QED
  BY <1>1, <1>2, <1>3, <1>5, <1>6, <1>7, <1>8, <1>9, <1>10, Zenon DEF Chat!Next, Chat!LookUp, Chat!Register,
       Chat!Disconnect, Chat!Connect, Chat!GoldChanges, Chat!SetBan, Chat!Turn, Chat!rows, Chat!vars

LEMMA GateBoundsStep == ASSUME Chat!ChatAssumption, GateBounds, [Chat!Next]_(Chat!vars) PROVE GateBounds'
<1> USE DEF GateBounds, Chat!ChatAssumption
<1>1. ASSUME NEW u \in Customers, Chat!GoldChanges(u) \/ (\E b \in BOOLEAN : Chat!SetBan(u, b)) PROVE GateBounds'
  <2>1. turns < MaxTurns /\ turns' = turns + 1
    BY <1>1, Zenon DEF Chat!GoldChanges, Chat!SetBan, Chat!Turn
  <2>2. turns' \in 0..MaxTurns
    BY <2>1, SMT
  <2>3. gold' \in {gold, gold \cup {u}, gold \ {u}} /\ banned' \in {banned, banned \cup {u}, banned \ {u}}
    BY <1>1, Zenon DEF Chat!GoldChanges, Chat!SetBan
  <2>4. QED
    BY <2>2, <2>3, Zenon
<1>2. CASE turns < MaxTurns /\ turns' = turns + 1 /\ UNCHANGED <<banned, gold>>
  BY <1>2, SMT
<1>3. CASE UNCHANGED <<turns, banned, gold>>
  BY <1>3
<1>4. QED
  BY <1>1, <1>2, <1>3, Zenon DEF Chat!Next, Chat!LookUp, Chat!Register, Chat!Disconnect, Chat!Connect, Chat!Create,
       Chat!Touch, Chat!Emit, Chat!Fail, Chat!Send, Chat!AdminSend, Chat!MarkRead, Chat!SetStatus, Chat!DeleteMessage,
       Chat!Turn, Chat!rows, Chat!vars

LEMMA GateSockStep == ASSUME GateSock, [Chat!Next]_(Chat!vars) PROVE GateSock'
<1> USE DEF GateSock, GateLinks
<1>1. ASSUME NEW k \in Sockets, NEW u \in Customers, Chat!Connect(k, u) PROVE GateSock'
  BY <1>1, SMT DEF Chat!Connect, Chat!history
<1>2. ASSUME NEW k \in Sockets, Chat!LookUp(k) PROVE GateSock'
  BY <1>2, SMT DEF Chat!LookUp, Chat!Admitted
<1>3. ASSUME NEW k \in Sockets, Chat!Register(k) PROVE GateSock'
  BY <1>3, SMT DEF Chat!Register
<1>4. ASSUME NEW k \in Sockets, Chat!Disconnect(k) PROVE GateSock'
  BY <1>4, SMT DEF Chat!Disconnect, Chat!Forgotten, Chat!history
<1>5. CASE UNCHANGED <<socket, clients, unbanned, early>>
  BY <1>5, Zenon
<1>6. QED
  BY <1>1, <1>2, <1>3, <1>4, <1>5, Zenon DEF Chat!Next, Chat!Create, Chat!Touch, Chat!Emit, Chat!Fail, Chat!Send,
       Chat!AdminSend, Chat!GoldChanges, Chat!SetBan, Chat!MarkRead, Chat!SetStatus, Chat!DeleteMessage, Chat!Turn,
       Chat!rows, Chat!links, Chat!history, Chat!vars

LEMMA GateCountedStep ==
    ASSUME Chat!ChatAssumption, GateShape, GateSock, GateCounted, [Chat!Next]_(Chat!vars)
    PROVE  GateCounted'
<1>1. IsFiniteSet(GateTouching) /\ Cardinality(GateTouching) \in Nat /\ stored \in Nat /\
        \A u \in Customers : thread[u].unread \in Nat
  <2>1. IsFiniteSet(GateTouching)
    BY GateCounts, FS_Subset DEF Chat!ChatAssumption, GateTouching
  <2>2. QED
    BY <2>1, FS_CardinalityType, SMT DEF GateShape, GateThreads
<1>2. ASSUME NEW c \in Slots, Chat!Create(c) PROVE GateCounted'
  <2>1. GateTouching' = GateTouching \cup {c} /\ c \notin GateTouching /\ stored' = stored + 1 /\ thread' = thread
    BY <1>2, SMT DEF Chat!Create, GateTouching, GateShape, GateCalls
  <2>2. Cardinality(GateTouching') = Cardinality(GateTouching) + 1
    BY <1>1, <2>1, FS_AddElement
  <2>3. QED
    BY <1>1, <2>1, <2>2, SMT DEF GateCounted
<1>3. ASSUME NEW c \in Slots, sending[c].pc = "touch", sending'[c].pc # "touch",
             \A d \in Slots \ {c} : sending'[d] = sending[d]
      PROVE  Cardinality(GateTouching') + 1 = Cardinality(GateTouching) /\ Cardinality(GateTouching') \in Nat
  <2>1. GateTouching' = GateTouching \ {c} /\ c \in GateTouching
    BY <1>3, Zenon DEF GateTouching
  <2>2. Cardinality(GateTouching') = Cardinality(GateTouching) - 1 /\ IsFiniteSet(GateTouching')
    BY <1>1, <2>1, FS_RemoveElement
  <2>3. QED
    BY <1>1, <2>2, FS_CardinalityType, SMT
<1>4. ASSUME NEW c \in Slots, Chat!Touch(c) PROVE GateCounted'
  <2>1. /\ sending[c].pc = "touch" /\ sending'[c].pc # "touch" /\ \A d \in Slots \ {c} : sending'[d] = sending[d]
        /\ stored' = stored
    BY <1>4, SMT DEF Chat!Touch, Chat!NoCall, GateShape, GateCalls
  <2>2. \A u \in Customers : thread'[u].unread \in Nat /\ thread'[u].unread <= thread[u].unread + 1
    BY <1>1, <1>4, SMT DEF Chat!Touch, Chat!Touched, GateShape, GateThreads
  <2>3. QED
    BY <1>1, <1>3, <2>1, <2>2, SMT DEF GateCounted
<1>5. ASSUME NEW c \in Slots, Chat!Fail(c) PROVE GateCounted'
  <2>1. sending[c].pc \in {"create", "touch"} /\ sending' = [sending EXCEPT ![c] = Chat!NoCall] /\
          UNCHANGED <<stored, thread>>
    BY <1>5, Zenon DEF Chat!Fail, Chat!rows
  <2>2. CASE sending[c].pc = "touch"
    <3>1. sending'[c].pc # "touch" /\ \A d \in Slots \ {c} : sending'[d] = sending[d]
      BY <2>1, SMT DEF Chat!NoCall, GateShape
    <3>2. QED
      BY <1>1, <1>3, <2>1, <2>2, <3>1, SMT DEF GateCounted
  <2>3. CASE sending[c].pc # "touch"
    <3>1. GateTouching' = GateTouching
      BY <2>1, <2>3, SMT DEF Chat!NoCall, GateShape, GateTouching
    <3>2. QED
      BY <2>1, <3>1, Zenon DEF GateCounted
  <2>4. QED
    BY <2>2, <2>3
<1>6. ASSUME GateTouching' = GateTouching, stored' = stored,
             \A u \in Customers : thread'[u].unread \in {0, thread[u].unread}
      PROVE  GateCounted'
  BY <1>1, <1>6, SMT DEF GateCounted
<1>7. ASSUME NEW c \in Slots, Chat!Emit(c) PROVE GateCounted'
  <2>1. GateTouching' = GateTouching /\ UNCHANGED <<stored, thread>>
    BY <1>7, SMT DEF Chat!Emit, Chat!NoCall, GateShape, GateTouching, Chat!rows
  <2>2. QED
    BY <1>6, <2>1, Zenon
<1>8. ASSUME NEW c \in Slots, NEW u, NEW f, Chat!Starts(c, u, f), UNCHANGED Chat!rows PROVE GateCounted'
  <2>1. GateTouching' = GateTouching /\ UNCHANGED <<stored, thread>>
    BY <1>8, SMT DEF Chat!Starts, GateShape, GateTouching, Chat!rows
  <2>2. QED
    BY <1>6, <2>1, Zenon
<1>9. ASSUME NEW u \in Customers, Chat!MarkRead(u) \/ (\E s \in {"OPEN", "CLOSED"} : Chat!SetStatus(u, s))
      PROVE  GateCounted'
  <2>1. UNCHANGED <<stored, sending>> /\ \A v \in Customers : thread'[v].unread \in {0, thread[v].unread}
    <3>1. thread' = [thread EXCEPT ![u].unread = 0] \/ \E s : thread' = [thread EXCEPT ![u].status = s]
      BY <1>9, Zenon DEF Chat!MarkRead, Chat!SetStatus
    <3>2. UNCHANGED <<stored, sending>>
      BY <1>9, Zenon DEF Chat!MarkRead, Chat!SetStatus, Chat!Turn
    <3>3. thread' = [thread EXCEPT ![u].unread = 0] => \A v \in Customers : thread'[v].unread \in {0, thread[v].unread}
      BY SMT DEF GateShape, GateThreads
    <3>4. ASSUME NEW s, thread' = [thread EXCEPT ![u].status = s]
          PROVE  \A v \in Customers : thread'[v].unread = thread[v].unread
      BY <3>4, SMT DEF GateShape, GateThreads
    <3>5. QED
      BY <3>1, <3>2, <3>3, <3>4, Zenon
  <2>2. QED
    BY <1>6, <2>1, Zenon DEF GateTouching
<1>10. CASE UNCHANGED <<stored, thread, sending>>
  BY <1>10, Zenon DEF GateCounted, GateTouching
<1>11. QED
  BY <1>2, <1>4, <1>5, <1>7, <1>8, <1>9, <1>10, Zenon DEF Chat!Next, Chat!LookUp, Chat!Register, Chat!Disconnect,
       Chat!Connect, Chat!Send, Chat!AdminSend, Chat!GoldChanges, Chat!SetBan, Chat!DeleteMessage, Chat!Turn, Chat!rows,
       Chat!vars

LEMMA GateAlike ==
    ASSUME NEW u \in Customers, GateShape, GateShape', GateUpTo(u), emitted \subseteq emitted',
           Chat!Of(u)' = Chat!Of(u), \A i \in Chat!Of(u) : message'[i] = message[i],
           thread'[u].last = thread[u].last, thread'[u].unread <= thread[u].unread,
           \A c \in Slots : GateMine(c, u)' <=> GateMine(c, u), \A c \in Slots : GateMine(c, u) =>
             sending'[c] = sending[c]
    PROVE  GateUpTo(u)'
<1>1. Chat!Answers(u)' = Chat!Answers(u)
  BY Zenon DEF Chat!Answers
<1>2. Chat!SinceAnswer(u)' = Chat!SinceAnswer(u)
  BY <1>1, Zenon DEF Chat!SinceAnswer
<1>3. \A c \in Slots : GateAtTouch(c, u)' <=> GateAtTouch(c, u)
  <2>1. "touch" # "idle"
    OBVIOUS
  <2>2. QED
    BY <2>1, Zenon DEF GateAtTouch, GateMine
<1>4. \A i : GateIsLast(u, i) => GateIsLast(u, i)'
  BY Zenon DEF GateIsLast
<1>5. Cardinality(Chat!SinceAnswer(u)) \in Nat
  <2>1. Chat!SinceAnswer(u) \subseteq 1..stored /\ IsFiniteSet(1..stored)
    <3>1. stored \in Int
      BY SMT DEF GateShape
    <3>2. IsFiniteSet(1..stored)
      BY <3>1, FS_Interval
    <3>3. QED
      BY <3>2, Zenon DEF Chat!SinceAnswer, Chat!Of
  <2>2. QED
    BY <2>1, FS_Subset, FS_CardinalityType
<1>6. thread[u].unread \in Nat /\ thread'[u].unread \in Nat
  BY DEF GateShape, GateThreads
<1>7. GateOneByOne(u)'
  BY Zenon DEF GateUpTo, GateOneByOne
<1>8. GateSettled(u)'
  <2>1. SUFFICES ASSUME \A c \in Slots : ~GateAtTouch(c, u)'
                 PROVE  /\ IF Chat!Of(u)' = {} THEN thread'[u].last = 0 ELSE GateIsLast(u, thread[u].last)'
                        /\ thread'[u].unread <= Cardinality(Chat!SinceAnswer(u)')
    BY Zenon DEF GateSettled
  <2>2. \A c \in Slots : ~GateAtTouch(c, u)
    BY <1>3, <2>1, Zenon
  <2>3. /\ IF Chat!Of(u) = {} THEN thread[u].last = 0 ELSE GateIsLast(u, thread[u].last)
        /\ thread[u].unread <= Cardinality(Chat!SinceAnswer(u))
    BY <2>2, Zenon DEF GateUpTo, GateSettled
  <2>4. IF Chat!Of(u)' = {} THEN thread'[u].last = 0 ELSE GateIsLast(u, thread[u].last)'
    BY <1>4, <2>3, Zenon
  <2>5. thread'[u].unread <= Cardinality(Chat!SinceAnswer(u))
    BY <1>5, <1>6, <2>3, SMT
  <2>6. QED
    BY <1>2, <2>4, <2>5, Zenon DEF GateIsLast
<1>9. GateHalfway(u)'
  <2>1. SUFFICES ASSUME NEW c \in Slots, GateAtTouch(c, u)
                 PROVE  /\ GateIsLast(u, sending[c].id)' /\ message'[sending'[c].id].from = sending'[c].from
                        /\ sending'[c].from = "USER" => thread'[u].unread + 1 <= Cardinality(Chat!SinceAnswer(u))
    BY <1>2, <1>3, Zenon DEF GateHalfway
  <2>2. sending'[c] = sending[c]
    <3>1. GateMine(c, u)
      BY <2>1 DEF GateAtTouch, GateMine
    <3>2. QED
      BY <3>1
  <2>3. /\ GateIsLast(u, sending[c].id) /\ message[sending[c].id].from = sending[c].from
        /\ sending[c].from = "USER" => thread[u].unread + 1 <= Cardinality(Chat!SinceAnswer(u))
    BY <2>1, Zenon DEF GateUpTo, GateHalfway
  <2>4. message'[sending'[c].id].from = sending'[c].from
    BY <2>2, <2>3, Zenon DEF GateIsLast
  <2>5. sending'[c].from = "USER" => thread'[u].unread + 1 <= Cardinality(Chat!SinceAnswer(u))
    BY <1>5, <1>6, <2>2, <2>3, SMT
  <2>6. GateIsLast(u, sending[c].id)'
    BY <2>2, <2>3, Zenon DEF GateIsLast
  <2>7. QED
    BY <2>4, <2>5, <2>6
<1>10. GateSent(u)'
  <2>1. SUFFICES ASSUME NEW i \in Chat!Of(u) \ Chat!Answers(u)
                 PROVE  i \in emitted' \/ \E c \in Slots : GateMine(c, u)' /\ sending'[c].pc # "create" /\
                        sending'[c].id = i
    BY <1>1, Zenon DEF GateSent
  <2>2. i \in emitted \/ \E c \in Slots : GateMine(c, u) /\ sending[c].pc # "create" /\ sending[c].id = i
    BY Zenon DEF GateUpTo, GateSent
  <2>3. QED
    BY <2>2, Zenon
<1>11. QED
  BY <1>7, <1>8, <1>9, <1>10 DEF GateUpTo

LEMMA GateAlikeCalls ==
    ASSUME NEW u \in Customers, UNCHANGED sending
    PROVE  /\ \A c \in Slots : GateMine(c, u)' <=> GateMine(c, u)
           /\ \A c \in Slots : GateMine(c, u) => sending'[c] = sending[c]
BY Zenon DEF GateMine

LEMMA GateAlikeOthers ==
    ASSUME NEW u \in Customers, NEW c \in Slots, sending[c].pc # "idle" => sending[c].u # u,
           sending'[c].pc # "idle" => sending'[c].u # u, \A d \in Slots \ {c} : sending'[d] = sending[d]
    PROVE  /\ \A d \in Slots : GateMine(d, u)' <=> GateMine(d, u)
           /\ \A d \in Slots : GateMine(d, u) => sending'[d] = sending[d]
BY Zenon DEF GateMine

LEMMA GateAlikeRows ==
    ASSUME NEW u \in Customers, UNCHANGED <<stored, message>>
    PROVE  Chat!Of(u)' = Chat!Of(u) /\ \A i \in Chat!Of(u) : message'[i] = message[i]
BY Zenon DEF Chat!Of

(* A message of u starts, when none of u is under way.                     *)
LEMMA GateAfterStart ==
    ASSUME NEW u \in Customers, NEW c \in Slots, NEW f \in GateFroms, GateShape, GateShape', GateUpTo(u),
           Chat!Starts(c, u, f), u \notin overlapping',
           UNCHANGED <<stored, message, thread, emitted>>
    PROVE  GateUpTo(u)'
<1>1. \A d \in Slots : ~GateMine(d, u)
  BY Zenon DEF Chat!Starts, Chat!Busy, GateMine
<1>2. \A d \in Slots \ {c} : ~GateMine(d, u)'
  <2>1. \A d \in Slots \ {c} : sending'[d] = sending[d]
    BY SMT DEF Chat!Starts, GateShape
  <2>2. QED
    BY <1>1, <2>1, Zenon DEF GateMine
<1>3. \A d \in Slots : ~GateAtTouch(d, u) /\ ~GateAtTouch(d, u)'
  <2>1. sending'[c].pc = "create"
    BY SMT DEF Chat!Starts, GateShape
  <2>2. "touch" # "idle" /\ "create" # "touch"
    OBVIOUS
  <2>3. QED
    BY <1>1, <1>2, <2>1, <2>2, Zenon DEF GateMine, GateAtTouch
<1>4. Chat!Of(u)' = Chat!Of(u) /\ Chat!Answers(u)' = Chat!Answers(u) /\ Chat!SinceAnswer(u)' = Chat!SinceAnswer(u)
  BY Zenon DEF Chat!Of, Chat!Answers, Chat!SinceAnswer
<1>5. GateOneByOne(u)'
  BY <1>2, Zenon DEF GateOneByOne
<1>6. GateSettled(u)'
  BY <1>3, <1>4, Zenon DEF GateUpTo, GateSettled, GateIsLast
<1>7. GateHalfway(u)'
  BY <1>3, Zenon DEF GateHalfway
<1>8. GateSent(u)'
  BY <1>1, <1>4, Zenon DEF GateUpTo, GateSent
<1>9. QED
  BY <1>5, <1>6, <1>7, <1>8 DEF GateUpTo

(* The message is stored: it is the last of u, and not yet on the thread.  *)
LEMMA GateAfterCreate ==
    ASSUME NEW u \in Customers, NEW c \in Slots, Chat!ChatAssumption, GateShape, GateShape', GateUpTo(u),
           Chat!Create(c), sending[c].u = u
    PROVE  GateUpTo(u)'
<1>n. PICK n : n = stored + 1
  OBVIOUS
<1>1. /\ stored \in Nat /\ stored' = n /\ n \in Nat /\ thread' = thread /\ emitted' = emitted
      /\ sending[c].pc = "create" /\ sending[c].from \in GateFroms
  BY <1>n, SMT DEF Chat!Create, GateShape, GateCalls, Chat!history
<1>2. sending' = [sending EXCEPT ![c] = [pc |-> "touch", u |-> sending[c].u, from |-> sending[c].from, id |-> n]]
  BY <1>1, Zenon DEF Chat!Create
<1>3. /\ sending'[c].pc = "touch" /\ sending'[c].u = u /\ sending'[c].from = sending[c].from /\ sending'[c].id = n
      /\ \A d \in Slots \ {c} : sending'[d] = sending[d]
  BY <1>2, SMT DEF GateShape
<1>4. \A d \in Slots \ {c} : ~GateMine(d, u) /\ ~GateMine(d, u)'
  <2>1. GateMine(c, u)
    BY <1>1 DEF GateMine
  <2>2. \A d \in Slots \ {c} : ~GateMine(d, u)
    BY <2>1, Zenon DEF GateUpTo, GateOneByOne
  <2>3. QED
    BY <1>3, <2>2, Zenon DEF GateMine
<1>5. /\ \A i \in 1..stored : message'[i] = message[i]
      /\ message'[n] = [u |-> u, from |-> sending[c].from] /\ message'[n] # Nil
  <2>1. message' = [i \in 1..n |-> IF i <= stored THEN message[i] ELSE [u |-> u, from |-> sending[c].from]]
    BY <1>1, Zenon DEF Chat!Create
  <2>2. n \in 1..n /\ ~(n <= stored) /\ \A i \in 1..stored : i \in 1..n /\ i <= stored
    BY <1>n, <1>1, SMT
  <2>3. \A i \in 1..n : message'[i] = IF i <= stored THEN message[i] ELSE [u |-> u, from |-> sending[c].from]
    BY <2>1, Zenon
  <2>4. message'[n] = [u |-> u, from |-> sending[c].from] /\ \A i \in 1..stored : message'[i] = message[i]
    BY <2>2, <2>3, Zenon
  <2>5. [u |-> u, from |-> sending[c].from] \in GateMessages
    BY <1>1, Zenon DEF GateMessages
  <2>6. QED
    BY GateCounts, <2>4, <2>5, Zenon DEF Chat!ChatAssumption, GateMessages, GateFroms
<1>6. 1..stored' = 1..stored \cup {n} /\ n \notin 1..stored /\ \A i \in 1..stored : i < n /\ i <= n
  BY <1>n, <1>1, SMT
<1>7. Chat!Of(u)' = Chat!Of(u) \cup {n} /\ n \notin Chat!Of(u) /\ Chat!Of(u) \subseteq 1..stored
  <2>1. message'[n].u = u
    BY <1>5
  <2>2. QED
    BY <1>5, <1>6, <2>1, Zenon DEF Chat!Of
<1>8. GateIsLast(u, n)'
  <2>1. n <= n
    BY <1>1, SMT
  <2>2. QED
    BY <1>6, <1>7, <2>1, Zenon DEF GateIsLast
<1>9. thread[u].unread \in Nat /\ thread[u].unread <= Cardinality(Chat!SinceAnswer(u))
  <2>1. \A d \in Slots : ~GateAtTouch(d, u)
    <3>1. "touch" # "idle" /\ "create" # "touch"
      OBVIOUS
    <3>2. QED
      BY <1>1, <1>4, <3>1, Zenon DEF GateAtTouch, GateMine
  <2>2. QED
    BY <2>1 DEF GateUpTo, GateSettled, GateShape, GateThreads
<1>10. ASSUME sending[c].from = "USER" PROVE thread'[u].unread + 1 <= Cardinality(Chat!SinceAnswer(u)')
  <2>1. message'[n].from # "ADMIN"
    BY <1>5, <1>10
  <2>2. Chat!Answers(u)' = Chat!Answers(u)
    BY <1>5, <1>7, <2>1, Zenon DEF Chat!Answers
  <2>3. Chat!SinceAnswer(u)' = Chat!SinceAnswer(u) \cup {n}
    <3>1. \A a \in Chat!Answers(u) : a < n
      BY <1>6, <1>7, Zenon DEF Chat!Answers
    <3>2. QED
      BY <1>7, <2>2, <3>1, Zenon DEF Chat!SinceAnswer
  <2>4. IsFiniteSet(Chat!SinceAnswer(u)) /\ n \notin Chat!SinceAnswer(u)
    <3>1. Chat!SinceAnswer(u) \subseteq 1..stored
      BY <1>7, Zenon DEF Chat!SinceAnswer
    <3>2. IsFiniteSet(1..stored)
      <4>1. 1 \in Int /\ stored \in Int
        BY <1>1, SMT
      <4>2. QED
        BY <4>1, FS_Interval
    <3>3. QED
      BY <1>6, <3>1, <3>2, FS_Subset
  <2>5. Cardinality(Chat!SinceAnswer(u)') = Cardinality(Chat!SinceAnswer(u)) + 1 /\
          Cardinality(Chat!SinceAnswer(u)) \in Nat
    BY <2>3, <2>4, FS_AddElement, FS_CardinalityType
  <2>6. QED
    BY <1>1, <1>9, <2>5, SMT
<1>11. GateOneByOne(u)'
  BY <1>4, Zenon DEF GateOneByOne
<1>12. GateSettled(u)'
  BY <1>3, Zenon DEF GateSettled, GateAtTouch
<1>13. GateHalfway(u)'
  <2>1. \A d \in Slots : GateAtTouch(d, u)' => d = c
    <3>1. "touch" # "idle"
      OBVIOUS
    <3>2. QED
      BY <1>4, <3>1, Zenon DEF GateAtTouch, GateMine
  <2>2. GateIsLast(u, sending[c].id)'
    BY <1>3, <1>8, Zenon DEF GateIsLast
  <2>3. message'[sending'[c].id].from = sending'[c].from
    BY <1>3, <1>5
  <2>4. sending'[c].from = "USER" => thread'[u].unread + 1 <= Cardinality(Chat!SinceAnswer(u)')
    BY <1>3, <1>10, Zenon
  <2>5. QED
    BY <2>1, <2>2, <2>3, <2>4, Zenon DEF GateHalfway
<1>14. GateSent(u)'
  <2>1. SUFFICES ASSUME NEW i \in Chat!Of(u)' \ Chat!Answers(u)'
                 PROVE  i \in emitted' \/ \E d \in Slots : GateMine(d, u)' /\ sending'[d].pc # "create" /\
                        sending'[d].id = i
    BY Zenon DEF GateSent
  <2>2. CASE i = n
    <3>1. GateMine(c, u)' /\ sending'[c].pc # "create"
      BY <1>3 DEF GateMine
    <3>2. QED
      BY <1>3, <2>2, <3>1, Zenon
  <2>3. CASE i # n
    <3>1. i \in Chat!Of(u) \ Chat!Answers(u)
      BY <1>5, <1>7, <2>3, Zenon DEF Chat!Answers
    <3>2. QED
      BY <1>1, <1>4, <3>1, Zenon DEF GateUpTo, GateSent
  <2>4. QED
    BY <2>2, <2>3
<1>15. QED
  BY <1>11, <1>12, <1>13, <1>14 DEF GateUpTo

(* The message is put on the thread; an answer reads what came before it.  *)
LEMMA GateAfterTouch ==
    ASSUME NEW u \in Customers, NEW c \in Slots, GateShape, GateShape', GateUpTo(u), Chat!Touch(c), sending[c].u = u
    PROVE  GateUpTo(u)'
<1>1. GateAtTouch(c, u) /\ GateMine(c, u) /\ UNCHANGED <<stored, message, emitted>>
  BY SMT DEF Chat!Touch, GateAtTouch, GateMine, Chat!history
<1>2. /\ \A d \in Slots \ {c} : sending'[d] = sending[d]
      /\ sending'[c].pc # "touch" /\ sending'[c].pc # "create"
      /\ sending[c].from = "USER" => sending'[c].pc # "idle" /\ sending'[c].u = u /\ sending'[c].id = sending[c].id
  BY SMT DEF Chat!Touch, GateShape, Chat!NoCall
<1>3. \A d \in Slots \ {c} : ~GateMine(d, u) /\ ~GateMine(d, u)'
  <2>1. \A d \in Slots \ {c} : ~GateMine(d, u)
    BY <1>1, Zenon DEF GateUpTo, GateOneByOne
  <2>2. QED
    BY <1>2, <2>1, Zenon DEF GateMine
<1>4. Chat!Of(u)' = Chat!Of(u) /\ Chat!Answers(u)' = Chat!Answers(u) /\ Chat!SinceAnswer(u)' = Chat!SinceAnswer(u)
  BY <1>1, Zenon DEF Chat!Of, Chat!Answers, Chat!SinceAnswer
<1>5. GateIsLast(u, sending[c].id) /\ message[sending[c].id].from = sending[c].from /\ sending[c].from \in GateFroms
  BY <1>1, Zenon DEF GateUpTo, GateHalfway, GateShape, GateCalls
<1>6. thread'[u].last = sending[c].id /\
        thread'[u].unread = IF sending[c].from = "ADMIN" THEN 0 ELSE thread[u].unread + 1
  BY SMT DEF Chat!Touch, Chat!Touched, GateShape
<1>7. Cardinality(Chat!SinceAnswer(u)) \in Nat
  <2>1. stored \in Int
    BY SMT DEF GateShape
  <2>2. Chat!SinceAnswer(u) \subseteq 1..stored /\ IsFiniteSet(1..stored)
    BY <2>1, FS_Interval DEF Chat!SinceAnswer, Chat!Of
  <2>3. QED
    BY <2>2, FS_Subset, FS_CardinalityType
<1>8. thread'[u].unread <= Cardinality(Chat!SinceAnswer(u))
  <2>1. CASE sending[c].from = "ADMIN"
    BY <1>6, <1>7, <2>1, SMT
  <2>2. CASE sending[c].from = "USER"
    <3>1. thread[u].unread + 1 <= Cardinality(Chat!SinceAnswer(u))
      BY <1>1, <2>2, Zenon DEF GateUpTo, GateHalfway
    <3>2. QED
      BY <1>6, <2>2, <3>1
  <2>3. QED
    BY <1>5, <2>1, <2>2 DEF GateFroms
<1>9. GateSettled(u)'
  <2>1. Chat!Of(u)' # {}
    BY <1>4, <1>5, Zenon DEF GateIsLast
  <2>2. GateIsLast(u, thread[u].last)'
    BY <1>4, <1>5, <1>6, Zenon DEF GateIsLast
  <2>3. thread'[u].unread <= Cardinality(Chat!SinceAnswer(u)')
    BY <1>4, <1>8, Zenon
  <2>4. QED
    BY <2>1, <2>2, <2>3, Zenon DEF GateSettled
<1>10. GateOneByOne(u)'
  BY <1>3, Zenon DEF GateOneByOne
<1>11. GateHalfway(u)'
  <2>1. "touch" # "idle"
    OBVIOUS
  <2>2. \A d \in Slots : ~GateAtTouch(d, u)'
    BY <1>2, <1>3, <2>1, Zenon DEF GateAtTouch, GateMine
  <2>3. QED
    BY <2>2, Zenon DEF GateHalfway
<1>12. GateSent(u)'
  <2>1. SUFFICES ASSUME NEW i \in Chat!Of(u) \ Chat!Answers(u)
                 PROVE  i \in emitted' \/ \E d \in Slots : GateMine(d, u)' /\ sending'[d].pc # "create" /\
                        sending'[d].id = i
    BY <1>4, Zenon DEF GateSent
  <2>2. i \in emitted \/ sending[c].id = i
    BY <1>3, Zenon DEF GateUpTo, GateSent
  <2>3. CASE sending[c].id = i
    <3>1. sending[c].from # "ADMIN"
      BY <1>5, <2>3, Zenon DEF Chat!Answers
    <3>2. sending[c].from = "USER"
      BY <1>5, <3>1 DEF GateFroms
    <3>3. GateMine(c, u)'
      BY <1>2, <3>2, Zenon DEF GateMine
    <3>4. QED
      BY <1>2, <2>3, <3>2, <3>3, Zenon
  <2>4. QED
    BY <1>1, <2>2, <2>3, Zenon
<1>13. QED
  BY <1>9, <1>10, <1>11, <1>12 DEF GateUpTo

(* The call of u ends: it was emitted, or nothing was stored.              *)
LEMMA GateAfterEnd ==
    ASSUME NEW u \in Customers, NEW c \in Slots, GateShape, GateShape', GateUpTo(u), sending[c].u = u,
           sending[c].pc \in {"create", "emit"},
           sending' = [sending EXCEPT ![c] = Chat!NoCall], UNCHANGED <<stored, message, thread>>,
           emitted' = emitted \/ emitted' = emitted \cup {sending[c].id},
           sending[c].pc = "emit" => sending[c].id \in emitted'
    PROVE  GateUpTo(u)'
<1>1. GateMine(c, u) /\ ~GateMine(c, u)'
  BY SMT DEF GateMine, Chat!NoCall, GateShape
<1>2. \A d \in Slots : ~GateMine(d, u)'
  <2>1. \A d \in Slots \ {c} : ~GateMine(d, u) /\ sending'[d] = sending[d]
    BY <1>1, SMT DEF GateUpTo, GateOneByOne, GateShape
  <2>2. QED
    BY <1>1, <2>1, Zenon DEF GateMine
<1>3. \A d \in Slots : ~GateAtTouch(d, u) /\ ~GateAtTouch(d, u)'
  <2>1. "touch" # "idle" /\ ~GateAtTouch(c, u)
    BY DEF GateAtTouch
  <2>2. \A d \in Slots \ {c} : ~GateMine(d, u)
    BY <1>1, Zenon DEF GateUpTo, GateOneByOne
  <2>3. QED
    BY <1>2, <2>1, <2>2, Zenon DEF GateMine, GateAtTouch
<1>4. Chat!Of(u)' = Chat!Of(u) /\ Chat!Answers(u)' = Chat!Answers(u) /\ Chat!SinceAnswer(u)' = Chat!SinceAnswer(u)
  BY Zenon DEF Chat!Of, Chat!Answers, Chat!SinceAnswer
<1>5. GateSettled(u)'
  BY <1>3, <1>4, Zenon DEF GateUpTo, GateSettled, GateIsLast
<1>6. GateOneByOne(u)' /\ GateHalfway(u)'
  BY <1>2, <1>3, Zenon DEF GateOneByOne, GateHalfway
<1>7. GateSent(u)'
  <2>1. SUFFICES ASSUME NEW i \in Chat!Of(u) \ Chat!Answers(u) PROVE i \in emitted'
    BY <1>4, Zenon DEF GateSent
  <2>2. i \in emitted \/ (sending[c].id = i /\ sending[c].pc # "create")
    BY <1>1, Zenon DEF GateUpTo, GateSent, GateOneByOne
  <2>3. QED
    BY <2>2, Zenon
<1>8. QED
  BY <1>5, <1>6, <1>7 DEF GateUpTo

LEMMA GateUpToDateStep ==
    ASSUME Chat!ChatAssumption, GateShape, GateShape', GateSock, GateUpToDate, [Chat!Next]_(Chat!vars)
    PROVE  GateUpToDate'
<1> SUFFICES ASSUME NEW u \in Customers, u \notin overlapping' PROVE GateUpTo(u)'
  BY Zenon DEF GateUpToDate
<1>1. overlapping \subseteq overlapping'
  BY Zenon DEF Chat!Next, Chat!LookUp, Chat!Register, Chat!Disconnect, Chat!Connect, Chat!Send, Chat!AdminSend,
       Chat!Starts, Chat!Create, Chat!Touch, Chat!Emit, Chat!Fail, Chat!MarkRead, Chat!SetStatus, Chat!DeleteMessage,
       Chat!GoldChanges, Chat!SetBan, Chat!history, Chat!vars
<1>2. GateUpTo(u)
  BY <1>1, Zenon DEF GateUpToDate
<1>0. thread[u].last \in Nat /\ thread[u].unread \in Nat /\ thread[u].unread <= thread[u].unread /\
        0 <= thread[u].unread
  BY SMT DEF GateShape, GateThreads
<1>3. ASSUME NEW c \in Slots, NEW v \in Customers, NEW f \in GateFroms, Chat!Starts(c, v, f),
             UNCHANGED <<stored, message, thread, emitted>>
      PROVE  GateUpTo(u)'
  <2>1. CASE v = u
    BY <1>2, <1>3, <2>1, GateAfterStart
  <2>2. CASE v # u
    <3>1. sending[c].pc = "idle" /\ sending'[c].u = v /\ \A d \in Slots \ {c} : sending'[d] = sending[d]
      BY <1>3, SMT DEF Chat!Starts, GateShape
    <3>2. QED
      BY <1>0, <1>2, <1>3, <2>2, <3>1, GateAlike, GateAlikeOthers, GateAlikeRows, Zenon
  <2>3. QED
    BY <2>1, <2>2
<1>4. ASSUME NEW c \in Slots, Chat!Create(c) PROVE GateUpTo(u)'
  <2>1. CASE sending[c].u = u
    BY <1>2, <1>4, <2>1, GateAfterCreate
  <2>2. CASE sending[c].u # u
    <3>1. /\ stored \in Nat /\ stored' = stored + 1 /\ thread' = thread /\ emitted' = emitted
          /\ sending' = [sending EXCEPT ![c] = [pc |-> "touch", u |-> sending[c].u, from |-> sending[c].from,
                                                id |-> stored']]
      BY <1>4, SMT DEF Chat!Create, GateShape, Chat!history
    <3>2. sending'[c].u # u /\ \A d \in Slots \ {c} : sending'[d] = sending[d]
      BY <2>2, <3>1, SMT DEF GateShape
    <3>3. /\ \A i \in 1..stored : i \in 1..stored' /\ message'[i] = message[i]
          /\ \A i \in 1..stored' : i \in 1..stored \/ message'[i].u = sending[c].u
      BY <1>4, <3>1, SMT DEF Chat!Create, GateShape
    <3>4. Chat!Of(u)' = Chat!Of(u) /\ \A i \in Chat!Of(u) : message'[i] = message[i]
      <4>1. \A i : i \in Chat!Of(u)' => i \in Chat!Of(u)
        BY <2>2, <3>3, Zenon DEF Chat!Of
      <4>2. \A i : i \in Chat!Of(u) => i \in Chat!Of(u)'
        BY <3>3, Zenon DEF Chat!Of
      <4>3. \A i \in Chat!Of(u) : message'[i] = message[i]
        BY <3>3, Zenon DEF Chat!Of
      <4>4. Chat!Of(u)' = Chat!Of(u)
        BY <4>1, <4>2, Zenon
      <4>5. QED
        BY <4>3, <4>4
    <3>5. QED
      BY <1>0, <1>2, <2>2, <3>1, <3>2, <3>4, GateAlike, GateAlikeOthers, Zenon
  <2>3. QED
    BY <2>1, <2>2
<1>5. ASSUME NEW c \in Slots, Chat!Touch(c) PROVE GateUpTo(u)'
  <2>1. CASE sending[c].u = u
    BY <1>2, <1>5, <2>1, GateAfterTouch
  <2>2. CASE sending[c].u # u
    <3>1. /\ UNCHANGED <<stored, message, emitted>> /\ thread'[u] = thread[u]
          /\ sending'[c].pc # "idle" => sending'[c].u # u
          /\ \A d \in Slots \ {c} : sending'[d] = sending[d]
      BY <1>5, <2>2, SMT DEF Chat!Touch, GateShape, Chat!NoCall, Chat!history
    <3>2. QED
      BY <1>0, <1>2, <2>2, <3>1, GateAlike, GateAlikeOthers, GateAlikeRows, Zenon
  <2>3. QED
    BY <2>1, <2>2
<1>6. ASSUME NEW c \in Slots, Chat!Emit(c) \/ Chat!Fail(c) PROVE GateUpTo(u)'
  <2>1. /\ sending' = [sending EXCEPT ![c] = Chat!NoCall] /\ UNCHANGED <<stored, message, thread>>
        /\ emitted' = emitted \/ emitted' = emitted \cup {sending[c].id}
        /\ sending[c].pc = "emit" => sending[c].id \in emitted'
        /\ sending[c].pc \in {"create", "emit"} \/ (sending[c].pc = "touch" /\ sending[c].u \in overlapping')
    <3>1. CASE Chat!Emit(c)
      BY <3>1, Zenon DEF Chat!Emit, Chat!rows
    <3>2. CASE Chat!Fail(c)
      BY <3>2, SMT DEF Chat!Fail, Chat!rows
    <3>3. QED
      BY <1>6, <3>1, <3>2
  <2>2. CASE sending[c].u = u
    <3>1. sending[c].pc \in {"create", "emit"}
      BY <2>1, <2>2, Zenon
    <3>2. QED
      BY <1>2, <2>1, <2>2, <3>1, GateAfterEnd, Zenon
  <2>3. CASE sending[c].u # u
    <3>1. sending'[c].pc = "idle" /\ \A d \in Slots \ {c} : sending'[d] = sending[d]
      BY <2>1, SMT DEF GateShape, Chat!NoCall
    <3>2. emitted \subseteq emitted'
      BY <2>1, Zenon
    <3>3. QED
      BY <1>0, <1>2, <2>1, <2>3, <3>1, <3>2, GateAlike, GateAlikeOthers, GateAlikeRows, Zenon
  <2>4. QED
    BY <2>2, <2>3
<1>7. ASSUME NEW i \in 1..stored, Chat!DeleteMessage(i) PROVE GateUpTo(u)'
  <2>1. /\ UNCHANGED <<stored, thread, sending, emitted>> /\ message[i] # Nil /\ message[i].u # u
        /\ message' = [message EXCEPT ![i] = Nil]
    BY <1>7, Zenon DEF Chat!DeleteMessage, Chat!Turn
  <2>2. message'[i] = Nil /\ \A j \in (1..stored) \ {i} : message'[j] = message[j]
    BY <2>1, SMT DEF GateShape
  <2>3. Chat!Of(u)' = Chat!Of(u) /\ \A j \in Chat!Of(u) : message'[j] = message[j]
    BY <2>1, <2>2, Zenon DEF Chat!Of
  <2>4. QED
    BY <1>0, <1>2, <2>1, <2>3, GateAlike, GateAlikeCalls, Zenon
<1>8. ASSUME NEW v \in Customers, Chat!MarkRead(v) \/ (\E s \in {"OPEN", "CLOSED"} : Chat!SetStatus(v, s))
      PROVE  GateUpTo(u)'
  <2>1. UNCHANGED <<stored, sending, message, emitted>>
    BY <1>8, Zenon DEF Chat!MarkRead, Chat!SetStatus, Chat!Turn, Chat!history
  <2>2. thread'[u].last = thread[u].last /\ thread'[u].unread \in {0, thread[u].unread}
    <3>1. thread' = [thread EXCEPT ![v].unread = 0] \/ \E s : thread' = [thread EXCEPT ![v].status = s]
      BY <1>8, Zenon DEF Chat!MarkRead, Chat!SetStatus
    <3>2. ASSUME thread' = [thread EXCEPT ![v].unread = 0]
          PROVE  thread'[u].last = thread[u].last /\ thread'[u].unread \in {0, thread[u].unread}
      BY <3>2, SMT DEF GateShape, GateThreads
    <3>3. ASSUME NEW s, thread' = [thread EXCEPT ![v].status = s]
          PROVE  thread'[u].last = thread[u].last /\ thread'[u].unread \in {0, thread[u].unread}
      BY <3>3, SMT DEF GateShape, GateThreads
    <3>4. QED
      BY <3>1, <3>2, <3>3, Zenon
  <2>3. thread'[u].unread <= thread[u].unread
    BY <1>0, <2>2, Zenon
  <2>4. QED
    BY <1>2, <2>1, <2>2, <2>3, GateAlike, GateAlikeCalls, GateAlikeRows, Zenon
<1>9. CASE UNCHANGED <<stored, message, thread, sending, emitted>>
  BY <1>0, <1>2, <1>9, GateAlike, GateAlikeCalls, GateAlikeRows, Zenon
<1>10. ASSUME NEW c \in Slots, NEW k \in Sockets, Chat!Send(c, k) PROVE GateUpTo(u)'
  <2>1. socket[k].u \in Customers
    BY <1>10, SMT DEF Chat!Send, GateSock
  <2>2. Chat!Starts(c, socket[k].u, "USER") /\ UNCHANGED <<stored, message, thread, emitted>>
    BY <1>10, Zenon DEF Chat!Send, Chat!rows
  <2>3. QED
    BY <1>3, <2>1, <2>2, Zenon DEF GateFroms
<1>11. ASSUME NEW c \in Slots, NEW v \in Customers, Chat!AdminSend(c, v) PROVE GateUpTo(u)'
  BY <1>3, <1>11, Zenon DEF Chat!AdminSend, GateFroms, Chat!rows
<1>12. QED
  BY <1>4, <1>5, <1>6, <1>7, <1>8, <1>9, <1>10, <1>11, Zenon DEF Chat!Next, Chat!LookUp, Chat!Register, Chat!Disconnect,
       Chat!Connect, Chat!GoldChanges, Chat!SetBan, Chat!Turn, Chat!rows, Chat!history, Chat!vars

LEMMA GateInvInit == ASSUME Chat!ChatAssumption, Chat!Init PROVE GateInv
<1> USE DEF Chat!ChatAssumption, Chat!Init
<1>1. GateShape
  BY SMT DEF GateShape, Chat!NoThread, Chat!NoCall, GateThreads, GateCalls, GateFroms
<1>2. GateBounds /\ GateSock
  BY SMT DEF GateBounds, GateSock, GateLinks
<1>3. GateCounted
  <2>1. GateTouching = {}
    BY SMT DEF GateTouching, Chat!NoCall
  <2>2. Cardinality(GateTouching) = 0
    BY <2>1, FS_EmptySet
  <2>3. QED
    BY <2>2, SMT DEF GateCounted, Chat!NoThread
<1>4. \A u \in Customers : Chat!Of(u) = {} /\ \A c \in Slots : ~GateMine(c, u) /\ ~GateAtTouch(c, u)
  BY SMT DEF Chat!Of, GateMine, GateAtTouch, Chat!NoCall
<1>5. \A u \in Customers : Chat!SinceAnswer(u) = {} /\ thread[u].last = 0 /\ thread[u].unread = 0
  BY <1>4, SMT DEF Chat!SinceAnswer, Chat!NoThread
<1>6. GateUpToDate
  <2>1. \A u \in Customers : GateSettled(u)
    <3>1. Cardinality({}) = 0 /\ 0 <= 0
      BY FS_EmptySet, SMT
    <3>2. QED
      BY <1>4, <1>5, <3>1, Zenon DEF GateSettled
  <2>2. \A u \in Customers : GateOneByOne(u) /\ GateHalfway(u) /\ GateSent(u)
    BY <1>4, Zenon DEF GateOneByOne, GateHalfway, GateSent
  <2>3. QED
    BY <2>1, <2>2 DEF GateUpToDate, GateUpTo
<1>7. QED
  BY <1>1, <1>2, <1>3, <1>6 DEF GateInv

LEMMA GateInvGives ==
    ASSUME Chat!ChatAssumption, GateInv
    PROVE  Chat!TypeOK /\ Chat!ClientsAreThere /\ Chat!ThreadIsUpToDate
<1> USE DEF GateInv, Chat!ChatAssumption
<1>1. Chat!ClientsAreThere
  BY Zenon DEF GateSock, Chat!ClientsAreThere
<1>2. \A u \in Customers : thread[u].unread \in 0..stored /\ thread[u].last \in 0..stored
  <2>1. IsFiniteSet(GateTouching)
    <3>1. IsFiniteSet(Slots)
      BY GateCounts DEF Chat!ChatAssumption
    <3>2. QED
      BY <3>1, FS_Subset DEF GateTouching
  <2>2. Cardinality(GateTouching) \in Nat
    BY <2>1, FS_CardinalityType
  <2>3. QED
    BY <2>2, SMT DEF GateCounted, GateShape, GateThreads
<1>3. Chat!TypeOK
  <2>1. banned \subseteq Customers /\ gold \subseteq Customers /\ turns \in 0..MaxTurns /\ clients \subseteq Sockets
    BY Zenon DEF GateBounds, GateSock
  <2>2. \A c \in Slots : sending[c].pc \in {"idle", "create", "touch", "emit"} /\ sending[c].id \in 0..stored
    BY SMT DEF GateShape, GateCalls
  <2>3. \A u \in Customers : thread[u].status \in {"NONE", "OPEN", "CLOSED"}
    BY Zenon DEF GateShape, GateThreads
  <2>4. QED
    BY <1>2, <2>1, <2>2, <2>3, Zenon DEF GateShape, Chat!TypeOK
<1>4. Chat!ThreadIsUpToDate
  <2>1. SUFFICES ASSUME NEW u \in Customers \ overlapping, ~Chat!Busy(u)
                 PROVE  /\ IF Chat!Of(u) = {} THEN thread[u].last = 0 ELSE GateIsLast(u, thread[u].last)
                        /\ thread[u].unread <= Cardinality(Chat!SinceAnswer(u))
                        /\ Chat!Of(u) \ Chat!Answers(u) \subseteq emitted
    BY GateCounts, Zenon DEF Chat!ThreadIsUpToDate, GateIsLast
  <2>2. \A c \in Slots : ~GateMine(c, u) /\ ~GateAtTouch(c, u)
    <3>1. "touch" # "idle"
      OBVIOUS
    <3>2. QED
      BY <2>1, <3>1, Zenon DEF Chat!Busy, GateMine, GateAtTouch
  <2>3. QED
    BY <2>2, Zenon DEF GateUpToDate, GateUpTo, GateSettled, GateSent
<1>5. QED
  BY <1>1, <1>3, <1>4

LEMMA GateHolds ==
    Chat!ChatAssumption =>
      (Chat!Init /\ [][Chat!Next]_(Chat!vars) => []Chat!TypeOK /\ []Chat!ClientsAreThere /\ []Chat!ThreadIsUpToDate)
<1> SUFFICES ASSUME Chat!ChatAssumption
             PROVE  Chat!Init /\ [][Chat!Next]_(Chat!vars) =>
                    []Chat!TypeOK /\ []Chat!ClientsAreThere /\ []Chat!ThreadIsUpToDate
  OBVIOUS
<1>1. Chat!Init => GateInv
  BY GateInvInit
<1>2. GateInv /\ [Chat!Next]_(Chat!vars) => GateInv'
  <2>1. ASSUME GateInv, [Chat!Next]_(Chat!vars) PROVE GateInv'
    BY <2>1, GateShapeStep, GateBoundsStep, GateSockStep, GateCountedStep, GateUpToDateStep, Zenon DEF GateInv
  <2>2. QED
    BY <2>1
<1>3. GateInv => Chat!TypeOK /\ Chat!ClientsAreThere /\ Chat!ThreadIsUpToDate
  BY GateInvGives
<1>4. QED
  BY <1>1, <1>2, <1>3, PTL
-----------------------------------------------------------------------------
(***************************************************************************)
(* The chat page of the panel: ChatPanel.                                  *)
(***************************************************************************)
TalkRow == [status : {"NONE", "OPEN", "CLOSED"}, unread : Nat]
TalkRows == {Nil} \cup [Users -> TalkRow \cup {Nil}]
TalkKinds == {"read", "send", "close", "open"}

(* The rows at the backend and the numbers the page has of them.           *)
TalkServerShape ==
    /\ rows \in [Users -> TalkRow] /\ talk \in [Users -> [n : Nat, tail : Nat]]
    /\ read \in [Users -> Nat] /\ missed \in SUBSET Users
    /\ \A u \in Users : rows[u].unread <= talk[u].n /\ talk[u].tail <= talk[u].n /\ read[u] <= talk[u].n

TalkPageShape ==
    /\ tab \in Tabs /\ selected \in Users \cup {Nil} /\ draft \in Users \cup {Nil}
    /\ list \in [Tabs -> TalkRows]
    /\ listQ \in [pc : {"idle", "threads", "legacy", "answer"}, key : Tabs \cup {Nil}, data : TalkRows]
    /\ listQ.pc # "idle" => listQ.key = tab

TalkPutShape ==
    /\ post \in [Slots -> [pc : {"idle", "write", "done"}, kind : TalkKinds, u : Users \cup {Nil},
                           typed : Users \cup {Nil}]]
    /\ \A s \in Slots : post[s].pc # "idle" => post[s].u \in Users

TalkMessagesShape ==
    /\ messagesQ \in [pc : {"idle", "ask", "answer"}, key : Users \cup {Nil}, data : Nat \cup {Nil}]
    /\ messagesQ.pc # "idle" => messagesQ.key \in Users
    /\ messagesQ.pc = "answer" => messagesQ.data \in 0..talk[messagesQ.key].n
    /\ shown \in [Users -> Nat \cup {Nil}]
    /\ \A u \in Users : shown[u] \in (0..talk[u].n) \cup {Nil}

TalkChatShape == TalkServerShape /\ TalkPageShape /\ TalkPutShape /\ TalkMessagesShape

(* The composer is empty or has what was typed for the window.             *)
TalkDraftOfWindow == draft \in {Nil, ChatPanel!Window}

(* What was marked as read of the customer in the window is on its way     *)
(* there: a request about them is answered and not yet heard of, their     *)
(* messages are asked for or got, or they are shown.                       *)
TalkReaches(u) ==
    \/ \E s \in Slots : post[s].pc = "done" /\ post[s].u = u
    \/ messagesQ.pc = "ask"
    \/ messagesQ.pc = "answer" /\ read[u] <= messagesQ.data
    \/ messagesQ.pc = "idle" /\ (shown[u] = Nil \/ read[u] <= shown[u])
TalkReadReaches ==
    /\ ChatPanel!Window # Nil /\ messagesQ.pc # "idle" => messagesQ.key = ChatPanel!Window
    /\ ChatPanel!Window # Nil /\ ChatPanel!Window \notin missed => TalkReaches(ChatPanel!Window)

TalkInv == TalkChatShape /\ TalkDraftOfWindow /\ ChatPanel!DraftGoesToItsThread /\ TalkReadReaches

LEMMA TalkWindowIs ==
    ASSUME NEW sel \in Users \cup {Nil}, NEW them
    PROVE  ChatPanel!WindowOf(sel, them) \in {Nil, sel} /\ ChatPanel!WindowOf(sel, them) \in Users \cup {Nil}
BY DEF ChatPanel!WindowOf

LEMMA TalkWindowStays == ASSUME UNCHANGED <<tab, selected, list>> PROVE ChatPanel!Window' = ChatPanel!Window
BY DEF ChatPanel!Window, ChatPanel!WindowOf

LEMMA TalkChatInit == ASSUME ChatPanel!ChatPanelAssumption, ChatPanel!Init PROVE TalkInv
<1> USE DEF ChatPanel!ChatPanelAssumption, ChatPanel!Init
<1>1. TalkServerShape
  BY SMT DEF TalkServerShape, TalkRow
<1>2. TalkPageShape
  BY SMT DEF TalkPageShape, TalkRows
<1>3. TalkPutShape /\ TalkMessagesShape
  BY SMT DEF TalkPutShape, TalkMessagesShape, TalkKinds, ChatPanel!NoQuery, ChatPanel!NoPut
<1>4. TalkDraftOfWindow /\ ChatPanel!DraftGoesToItsThread /\ TalkReadReaches
  BY SMT DEF TalkDraftOfWindow, ChatPanel!DraftGoesToItsThread, TalkReadReaches, ChatPanel!Window, ChatPanel!WindowOf,
       ChatPanel!NoPut
<1>5. QED
  BY <1>1, <1>2, <1>3, <1>4 DEF TalkInv, TalkChatShape

(* The rows the page is given are rows.                                    *)
LEMMA TalkGotRows ==
    ASSUME TalkServerShape, NEW t
    PROVE  ChatPanel!Filtered(rows, t) \in TalkRows /\ ChatPanel!Filtered(ChatPanel!Legacy, t) \in TalkRows
<1>1. ChatPanel!Legacy \in [Users -> TalkRow]
  BY SMT DEF ChatPanel!Legacy, TalkRow, TalkServerShape
<1>2. QED
  BY <1>1, SMT DEF ChatPanel!Filtered, TalkRows, TalkServerShape

-----------------------------------------------------------------------------
(* The shapes.                                                             *)
LEMMA TalkServerShapeStep ==
    ASSUME TalkServerShape, TalkPutShape, TalkMessagesShape, [ChatPanel!Next]_(ChatPanel!vars)
    PROVE  TalkServerShape'
<1> USE DEF TalkServerShape, TalkRow
<1>1. ASSUME NEW u \in Users, ChatPanel!CustomerWrites(u) PROVE TalkServerShape'
  BY <1>1, SMT DEF ChatPanel!CustomerWrites, ChatPanel!Turn
<1>2. ASSUME NEW u \in Users, ChatPanel!OtherReads(u) PROVE TalkServerShape'
  BY <1>2, SMT DEF ChatPanel!OtherReads, ChatPanel!Turn
<1>2a. ASSUME NEW u \in Users, ChatPanel!OtherCloses(u) PROVE TalkServerShape'
  BY <1>2a, SMT DEF ChatPanel!OtherCloses, ChatPanel!Turn
<1>3. ASSUME NEW s \in Slots, ChatPanel!Write(s) PROVE TalkServerShape'
  <2> DEFINE u == post[s].u
  <2>1. u \in Users /\ post[s].kind \in TalkKinds
    BY <1>3, SMT DEF ChatPanel!Write, TalkPutShape
  <2>2. CASE post[s].kind = "read"
    BY <1>3, <2>1, <2>2, SMT DEF ChatPanel!Write
  <2>3. CASE post[s].kind = "send"
    BY <1>3, <2>1, <2>3, SMT DEF ChatPanel!Write
  <2>4. CASE post[s].kind \in {"close", "open"}
    BY <1>3, <2>1, <2>4, SMT DEF ChatPanel!Write
  <2>5. QED
    BY <2>1, <2>2, <2>3, <2>4, SMT DEF TalkKinds
<1>4. ASSUME NEW s \in Slots, ChatPanel!PutFails(s) PROVE TalkServerShape'
  BY <1>4, SMT DEF ChatPanel!PutFails, ChatPanel!Lost, ChatPanel!server, TalkPutShape
<1>5. CASE ChatPanel!MessagesFail
  BY <1>5, SMT DEF ChatPanel!MessagesFail, ChatPanel!Lost, ChatPanel!server, TalkMessagesShape
<1>6. ASSUME UNCHANGED <<rows, talk, read, missed>> PROVE TalkServerShape'
  BY <1>6, SMT
<1>7. QED
  BY <1>1, <1>2, <1>2a, <1>3, <1>4, <1>5, <1>6, Zenon DEF ChatPanel!Next, ChatPanel!Select, ChatPanel!SetTab,
       ChatPanel!Done, ChatPanel!Click, ChatPanel!Type, ChatPanel!AskList, ChatPanel!AskMessages, ChatPanel!ThreadsFail,
       ChatPanel!ReadThreads, ChatPanel!ReadLegacy, ChatPanel!AnswerList, ChatPanel!ReadMessages,
       ChatPanel!AnswerMessages, ChatPanel!Move, ChatPanel!Lost, ChatPanel!server, ChatPanel!vars

LEMMA TalkPageShapeStep ==
    ASSUME ChatPanel!ChatPanelAssumption, TalkServerShape, TalkPageShape, TalkPutShape,
           [ChatPanel!Next]_(ChatPanel!vars)
    PROVE  TalkPageShape'
<1> USE DEF TalkPageShape
<1>1. ASSUME NEW u \in Users, ChatPanel!Select(u) PROVE TalkPageShape'
  BY <1>1, SMT DEF ChatPanel!Select, ChatPanel!Brings, ChatPanel!Draft
<1>2. ASSUME NEW t \in Tabs, ChatPanel!SetTab(t) PROVE TalkPageShape'
  BY <1>2, SMT DEF ChatPanel!SetTab, ChatPanel!Brings, ChatPanel!Draft, ChatPanel!NoQuery, TalkRows
<1>3. CASE ChatPanel!Type
  <2>1. draft' = ChatPanel!Window /\ UNCHANGED <<tab, selected, list, listQ>>
    BY <1>3, Zenon DEF ChatPanel!Type, ChatPanel!queries
  <2>2. ChatPanel!Window \in Users \cup {Nil}
    BY TalkWindowIs DEF ChatPanel!Window
  <2>3. QED
    BY <2>1, <2>2, SMT
<1>4. ASSUME NEW s \in Slots, ChatPanel!Done(s) PROVE TalkPageShape'
  BY <1>4, SMT DEF ChatPanel!Done, ChatPanel!NoQuery, TalkRows
<1>5. CASE ChatPanel!AskList
  BY <1>5, SMT DEF ChatPanel!AskList, ChatPanel!NoQuery, TalkRows, ChatPanel!page
<1>6. CASE ChatPanel!ReadThreads
  <2>1. listQ' = [pc |-> "answer", key |-> listQ.key, data |-> ChatPanel!Filtered(rows, listQ.key)] \/
          listQ' = [listQ EXCEPT !.pc = "legacy"]
    BY <1>6, Zenon DEF ChatPanel!ReadThreads
  <2>2. QED
    BY <1>6, <2>1, TalkGotRows, SMT DEF ChatPanel!ReadThreads, ChatPanel!page
<1>7. CASE ChatPanel!ThreadsFail
  BY <1>7, SMT DEF ChatPanel!ThreadsFail, ChatPanel!page
<1>8. CASE ChatPanel!ReadLegacy
  BY <1>8, TalkGotRows, SMT DEF ChatPanel!ReadLegacy, ChatPanel!page
<1>9. CASE ChatPanel!AnswerList
  BY <1>9, SMT DEF ChatPanel!AnswerList, ChatPanel!NoQuery, TalkRows, ChatPanel!Brings, ChatPanel!Draft
<1>10. ASSUME UNCHANGED <<tab, selected, draft, list, listQ>> PROVE TalkPageShape'
  BY <1>10, SMT
<1>11. QED
  BY <1>1, <1>2, <1>3, <1>4, <1>5, <1>6, <1>7, <1>8, <1>9, <1>10, Zenon DEF ChatPanel!Next, ChatPanel!CustomerWrites,
       ChatPanel!OtherReads, ChatPanel!OtherCloses, ChatPanel!Turn, ChatPanel!Write, ChatPanel!PutFails,
       ChatPanel!Click, ChatPanel!AskMessages, ChatPanel!MessagesFail, ChatPanel!ReadMessages, ChatPanel!AnswerMessages,
       ChatPanel!page, ChatPanel!queries, ChatPanel!vars

LEMMA TalkBringsShape ==
    ASSUME TalkPutShape, NEW w \in Users \cup {Nil}, ChatPanel!Brings(w)
    PROVE  TalkPutShape'
<1> USE DEF TalkPutShape, TalkKinds
<1>1. CASE UNCHANGED post
  BY <1>1, SMT
<1>2. ASSUME w # Nil, NEW s \in Slots,
             post' = [post EXCEPT ![s] = [pc |-> "write", kind |-> "read", u |-> w, typed |-> Nil]]
      PROVE  TalkPutShape'
  BY <1>2, SMT DEF ChatPanel!NoPut
<1>3. QED
  BY <1>1, <1>2, Zenon DEF ChatPanel!Brings

LEMMA TalkPutShapeStep == ASSUME TalkPageShape, TalkPutShape, [ChatPanel!Next]_(ChatPanel!vars) PROVE TalkPutShape'
<1> USE DEF TalkPutShape, TalkKinds
<1>1. ASSUME NEW u \in Users, ChatPanel!Select(u) PROVE TalkPutShape'
  BY <1>1, TalkBringsShape, Zenon DEF ChatPanel!Select
<1>2. ASSUME NEW t \in Tabs, ChatPanel!SetTab(t) PROVE TalkPutShape'
  BY <1>2, TalkBringsShape, TalkWindowIs, Zenon DEF ChatPanel!SetTab, TalkPageShape
<1>3. CASE ChatPanel!AnswerList
  BY <1>3, TalkBringsShape, TalkWindowIs, Zenon DEF ChatPanel!AnswerList, TalkPageShape
<1>4. ASSUME NEW s \in Slots, NEW kind \in {"send", "close", "open"}, ChatPanel!Click(s, kind) PROVE TalkPutShape'
  BY <1>4, TalkWindowIs, SMT DEF ChatPanel!Click, TalkPageShape, ChatPanel!Window
<1>5. ASSUME NEW s \in Slots, ChatPanel!Write(s) PROVE TalkPutShape'
  BY <1>5, SMT DEF ChatPanel!Write
<1>6. ASSUME NEW s \in Slots, ChatPanel!Done(s) \/ ChatPanel!PutFails(s) PROVE TalkPutShape'
  BY <1>6, SMT DEF ChatPanel!Done, ChatPanel!PutFails, ChatPanel!NoPut
<1>7. ASSUME UNCHANGED post PROVE TalkPutShape'
  BY <1>7, SMT
<1>8. QED
  BY <1>1, <1>2, <1>3, <1>4, <1>5, <1>6, <1>7, Zenon DEF ChatPanel!Next, ChatPanel!CustomerWrites, ChatPanel!OtherReads,
       ChatPanel!OtherCloses, ChatPanel!Turn, ChatPanel!Type, ChatPanel!AskList, ChatPanel!AskMessages,
       ChatPanel!ThreadsFail, ChatPanel!MessagesFail, ChatPanel!ReadThreads, ChatPanel!ReadLegacy,
       ChatPanel!ReadMessages, ChatPanel!AnswerMessages, ChatPanel!vars

LEMMA TalkMessagesShapeStep ==
    ASSUME TalkServerShape, TalkPageShape, TalkPutShape, TalkMessagesShape, [ChatPanel!Next]_(ChatPanel!vars)
    PROVE  TalkMessagesShape'
<1> USE DEF TalkMessagesShape
<1>1. ASSUME NEW w \in Users, messagesQ' = [pc |-> "ask", key |-> w, data |-> Nil], UNCHANGED <<shown, talk>>
      PROVE  TalkMessagesShape'
  BY <1>1, SMT
<1>2. ASSUME NEW w \in Users \cup {Nil}, ChatPanel!Brings(w), UNCHANGED <<shown, talk>> PROVE TalkMessagesShape'
  BY <1>1, <1>2, SMT DEF ChatPanel!Brings
<1>3. ASSUME NEW u \in Users, ChatPanel!Select(u) PROVE TalkMessagesShape'
  BY <1>2, <1>3, Zenon DEF ChatPanel!Select, ChatPanel!Move, ChatPanel!server
<1>4. ASSUME NEW t \in Tabs, ChatPanel!SetTab(t) PROVE TalkMessagesShape'
  BY <1>2, <1>4, TalkWindowIs, Zenon DEF ChatPanel!SetTab, ChatPanel!Move, ChatPanel!server, TalkPageShape
<1>5. CASE ChatPanel!AnswerList
  BY <1>2, <1>5, TalkWindowIs, Zenon DEF ChatPanel!AnswerList, ChatPanel!server, TalkPageShape
<1>6. ASSUME NEW s \in Slots, ChatPanel!Done(s) PROVE TalkMessagesShape'
  <2>1. UNCHANGED <<shown, talk>> /\ messagesQ' = ChatPanel!Invalidated
    BY <1>6, Zenon DEF ChatPanel!Done, ChatPanel!server
  <2>2. ChatPanel!Window \in Users \cup {Nil}
    BY TalkWindowIs, Zenon DEF ChatPanel!Window, TalkPageShape
  <2>3. QED
    BY <1>1, <2>1, <2>2, SMT DEF ChatPanel!Invalidated
<1>7. CASE ChatPanel!AskMessages
  <2>1. ChatPanel!Window \in Users \cup {Nil}
    BY TalkWindowIs, Zenon DEF ChatPanel!Window, TalkPageShape
  <2>2. QED
    BY <1>1, <1>7, <2>1, Zenon DEF ChatPanel!AskMessages, ChatPanel!server
<1>8. CASE ChatPanel!ReadMessages
  BY <1>8, SMT DEF ChatPanel!ReadMessages, ChatPanel!server, TalkServerShape
<1>9. CASE ChatPanel!AnswerMessages
  BY <1>9, SMT DEF ChatPanel!AnswerMessages, ChatPanel!server, ChatPanel!NoQuery
<1>10. CASE ChatPanel!MessagesFail
  BY <1>10, SMT DEF ChatPanel!MessagesFail, ChatPanel!Lost, ChatPanel!server, ChatPanel!NoQuery
<1>11. ASSUME UNCHANGED <<messagesQ, shown>>, \A u \in Users : talk'[u].n \in Nat /\ talk[u].n <= talk'[u].n
       PROVE  TalkMessagesShape'
  BY <1>11, SMT DEF TalkServerShape
<1>12. ASSUME NEW u \in Users, ChatPanel!CustomerWrites(u) PROVE TalkMessagesShape'
  <2>1. \A v \in Users : talk'[v].n \in Nat /\ talk[v].n <= talk'[v].n
    BY <1>12, SMT DEF ChatPanel!CustomerWrites, TalkServerShape
  <2>2. QED
    BY <1>11, <1>12, <2>1, Zenon DEF ChatPanel!CustomerWrites, ChatPanel!Turn, ChatPanel!queries
<1>13. ASSUME NEW s \in Slots, ChatPanel!Write(s) PROVE TalkMessagesShape'
  <2>1. \A v \in Users : talk'[v].n \in Nat /\ talk[v].n <= talk'[v].n
    BY <1>13, SMT DEF ChatPanel!Write, TalkServerShape
  <2>2. QED
    BY <1>11, <1>13, <2>1, Zenon DEF ChatPanel!Write, ChatPanel!queries
<1>14. ASSUME UNCHANGED <<messagesQ, shown, talk>> PROVE TalkMessagesShape'
  BY <1>14, SMT
<1>15. QED
  BY <1>3, <1>4, <1>5, <1>6, <1>7, <1>8, <1>9, <1>10, <1>12, <1>13, <1>14, Zenon DEF ChatPanel!Next,
       ChatPanel!OtherReads, ChatPanel!OtherCloses, ChatPanel!Turn, ChatPanel!Type, ChatPanel!Click, ChatPanel!PutFails,
       ChatPanel!AskList, ChatPanel!ThreadsFail, ChatPanel!ReadThreads, ChatPanel!ReadLegacy, ChatPanel!Move,
       ChatPanel!Lost, ChatPanel!server, ChatPanel!queries, ChatPanel!vars
-----------------------------------------------------------------------------
(* The composer and the window.                                            *)
LEMMA TalkBringsWindow ==
    ASSUME TalkDraftOfWindow, NEW w, ChatPanel!Brings(w), ChatPanel!Window' = w
    PROVE  TalkDraftOfWindow'
BY DEF TalkDraftOfWindow, ChatPanel!Brings, ChatPanel!Draft

(* A thread that is brought into the window is the window's.               *)
LEMMA TalkSelectBrings ==
    ASSUME TalkPageShape, NEW u \in Users, ChatPanel!Select(u)
    PROVE  ChatPanel!Window' = IF u = Nil THEN Nil ELSE u
BY SMT DEF ChatPanel!Select, ChatPanel!Window, ChatPanel!WindowOf

LEMMA TalkSetTabBrings ==
    ASSUME NEW t \in Tabs, ChatPanel!SetTab(t)
    PROVE  ChatPanel!Window' = ChatPanel!WindowOf(selected, list[t])
BY SMT DEF ChatPanel!SetTab, ChatPanel!Window

LEMMA TalkAnswerListBrings ==
    ASSUME TalkPageShape, ChatPanel!AnswerList
    PROVE  ChatPanel!Window' = ChatPanel!WindowOf(selected, listQ.data)
<1>1. listQ.key = tab /\ list'[tab] = listQ.data /\ UNCHANGED <<tab, selected>>
  BY SMT DEF ChatPanel!AnswerList, TalkPageShape
<1>2. QED
  BY <1>1, Zenon DEF ChatPanel!Window, ChatPanel!WindowOf

LEMMA TalkDraftOfWindowStep ==
    ASSUME TalkPageShape, TalkDraftOfWindow, [ChatPanel!Next]_(ChatPanel!vars)
    PROVE  TalkDraftOfWindow'
<1>1. ASSUME NEW u \in Users, ChatPanel!Select(u) PROVE TalkDraftOfWindow'
  <2>1. ChatPanel!Window' = u
    BY <1>1, TalkSelectBrings
  <2>2. QED
    BY <1>1, <2>1, TalkBringsWindow, Zenon DEF ChatPanel!Select
<1>2. ASSUME NEW t \in Tabs, ChatPanel!SetTab(t) PROVE TalkDraftOfWindow'
  BY <1>2, TalkSetTabBrings, TalkBringsWindow, Zenon DEF ChatPanel!SetTab
<1>3. CASE ChatPanel!AnswerList
  BY <1>3, TalkAnswerListBrings, TalkBringsWindow, Zenon DEF ChatPanel!AnswerList
<1>4. ASSUME UNCHANGED <<tab, selected, list>>, draft' \in {Nil, draft, ChatPanel!Window} PROVE TalkDraftOfWindow'
  BY <1>4, TalkWindowStays, Zenon DEF TalkDraftOfWindow
<1>5. CASE ChatPanel!Type
  BY <1>4, <1>5, Zenon DEF ChatPanel!Type, ChatPanel!queries
<1>6. ASSUME NEW s \in Slots, ChatPanel!Done(s) PROVE TalkDraftOfWindow'
  BY <1>4, <1>6, Zenon DEF ChatPanel!Done
<1>7. ASSUME UNCHANGED <<tab, selected, draft, list>> PROVE TalkDraftOfWindow'
  BY <1>4, <1>7, Zenon
<1>8. QED
  BY <1>1, <1>2, <1>3, <1>5, <1>6, <1>7, Zenon DEF ChatPanel!Next, ChatPanel!CustomerWrites, ChatPanel!OtherReads,
       ChatPanel!OtherCloses, ChatPanel!Turn, ChatPanel!Write, ChatPanel!PutFails, ChatPanel!Click, ChatPanel!AskList,
       ChatPanel!AskMessages, ChatPanel!MessagesFail, ChatPanel!ThreadsFail, ChatPanel!ReadThreads,
       ChatPanel!ReadLegacy, ChatPanel!ReadMessages, ChatPanel!AnswerMessages, ChatPanel!page, ChatPanel!queries,
       ChatPanel!vars

LEMMA TalkDraftGoesStep ==
    ASSUME TalkPageShape, TalkPutShape, TalkDraftOfWindow, ChatPanel!DraftGoesToItsThread,
           [ChatPanel!Next]_(ChatPanel!vars)
    PROVE  ChatPanel!DraftGoesToItsThread'
<1> USE DEF TalkPutShape, ChatPanel!DraftGoesToItsThread
<1>1. ASSUME NEW w, ChatPanel!Brings(w) PROVE ChatPanel!DraftGoesToItsThread'
  <2>1. CASE UNCHANGED post
    BY <2>1, Zenon
  <2>2. ASSUME NEW s \in Slots, post' = [post EXCEPT ![s] = [pc |-> "write", kind |-> "read", u |-> w, typed |-> Nil]]
        PROVE  ChatPanel!DraftGoesToItsThread'
    BY <2>2, SMT
  <2>3. QED
    BY <1>1, <2>1, <2>2, Zenon DEF ChatPanel!Brings
<1>2. ASSUME NEW s \in Slots, NEW kind \in {"send", "close", "open"}, ChatPanel!Click(s, kind)
      PROVE  ChatPanel!DraftGoesToItsThread'
  <2>1. post' = [post EXCEPT ![s] = [pc |-> "write", kind |-> kind, u |-> ChatPanel!Window, typed |-> draft]]
    BY <1>2, Zenon DEF ChatPanel!Click
  <2>2. kind = "send" => draft = ChatPanel!Window
    BY <1>2, SMT DEF ChatPanel!Click, TalkDraftOfWindow
  <2>3. QED
    BY <2>1, <2>2, SMT
<1>3. ASSUME NEW s \in Slots, ChatPanel!Write(s) PROVE ChatPanel!DraftGoesToItsThread'
  BY <1>3, SMT DEF ChatPanel!Write
<1>4. ASSUME NEW s \in Slots, ChatPanel!Done(s) \/ ChatPanel!PutFails(s) PROVE ChatPanel!DraftGoesToItsThread'
  BY <1>4, SMT DEF ChatPanel!Done, ChatPanel!PutFails, ChatPanel!NoPut
<1>5. ASSUME UNCHANGED post PROVE ChatPanel!DraftGoesToItsThread'
  BY <1>5, Zenon
<1>6. QED
  BY <1>1, <1>2, <1>3, <1>4, <1>5, Zenon DEF ChatPanel!Next, ChatPanel!Select, ChatPanel!SetTab, ChatPanel!AnswerList,
       ChatPanel!CustomerWrites, ChatPanel!OtherReads, ChatPanel!OtherCloses, ChatPanel!Turn, ChatPanel!Type,
       ChatPanel!AskList, ChatPanel!AskMessages, ChatPanel!ThreadsFail, ChatPanel!MessagesFail, ChatPanel!ReadThreads,
       ChatPanel!ReadLegacy, ChatPanel!ReadMessages, ChatPanel!AnswerMessages, ChatPanel!vars
-----------------------------------------------------------------------------
(* What was marked as read reaches the window.                             *)
LEMMA TalkBringsReads ==
    ASSUME TalkPageShape, TalkPutShape, TalkServerShape, TalkMessagesShape, TalkReadReaches, NEW w \in Users \cup {Nil},
           ChatPanel!Brings(w), ChatPanel!Window' = w,
           UNCHANGED <<shown, read, missed>>
    PROVE  TalkReadReaches'
<1> USE DEF TalkReadReaches
<1>1. CASE w = Nil
  BY <1>1, Zenon
<1>2. CASE w # Nil /\ w # ChatPanel!Window
  <2>1. messagesQ' = [pc |-> "ask", key |-> w, data |-> Nil]
    BY <1>2, Zenon DEF ChatPanel!Brings
  <2>2. messagesQ'.pc = "ask" /\ messagesQ'.key = w
    BY <2>1, SMT
  <2>3. QED
    BY <2>2, Zenon DEF TalkReaches
<1>3. CASE w # Nil /\ w = ChatPanel!Window
  <2>1. UNCHANGED <<post, messagesQ>>
    BY <1>3, Zenon DEF ChatPanel!Brings
  <2>2. QED
    BY <1>3, <2>1, Zenon DEF TalkReaches
<1>4. QED
  BY <1>1, <1>2, <1>3, Zenon

LEMMA TalkReadReachesStep ==
    ASSUME TalkServerShape, TalkPageShape, TalkPutShape, TalkMessagesShape, TalkReadReaches,
           [ChatPanel!Next]_(ChatPanel!vars)
    PROVE  TalkReadReaches'
<1>1. \A sel \in Users \cup {Nil} : \A them : ChatPanel!WindowOf(sel, them) \in Users \cup {Nil}
  BY TalkWindowIs, Zenon
<1>2. ChatPanel!Window \in Users \cup {Nil} /\ selected \in Users \cup {Nil}
  BY <1>1, Zenon DEF ChatPanel!Window, TalkPageShape
<1>3. ASSUME NEW u \in Users, ChatPanel!Select(u) PROVE TalkReadReaches'
  <2>1. ChatPanel!Window' = u
    BY <1>3, TalkSelectBrings
  <2>2. UNCHANGED <<shown, read, missed>> /\ ChatPanel!Brings(u) /\ u \in Users \cup {Nil}
    BY <1>3, Zenon DEF ChatPanel!Select, ChatPanel!Move
  <2>3. QED
    BY <2>1, <2>2, TalkBringsReads, Zenon
<1>4. ASSUME NEW t \in Tabs, ChatPanel!SetTab(t) PROVE TalkReadReaches'
  BY <1>1, <1>2, <1>4, TalkSetTabBrings, TalkBringsReads, Zenon DEF ChatPanel!SetTab, ChatPanel!Move
<1>5. CASE ChatPanel!AnswerList
  BY <1>1, <1>2, <1>5, TalkAnswerListBrings, TalkBringsReads, Zenon DEF ChatPanel!AnswerList
<1>6. ASSUME ChatPanel!Window' = ChatPanel!Window, ChatPanel!Window # Nil PROVE TalkReadReaches' <=>
           /\ messagesQ'.pc # "idle" => messagesQ'.key = ChatPanel!Window
           /\ ChatPanel!Window \notin missed' => TalkReaches(ChatPanel!Window)'
  BY <1>6, Zenon DEF TalkReadReaches, TalkReaches
<1>7. ChatPanel!Window' = ChatPanel!Window /\ ChatPanel!Window = Nil => TalkReadReaches'
  BY Zenon DEF TalkReadReaches
<1>8. ChatPanel!Window # Nil => /\ ChatPanel!Window \in Users
                                /\ messagesQ.pc # "idle" => messagesQ.key = ChatPanel!Window
                                /\ ChatPanel!Window \notin missed => TalkReaches(ChatPanel!Window)
  BY <1>2, Zenon DEF TalkReadReaches
<1> HIDE DEF ChatPanel!Window
<1>9. ASSUME NEW s \in Slots, ChatPanel!Write(s) PROVE TalkReadReaches'
  <2>1. ChatPanel!Window' = ChatPanel!Window /\ UNCHANGED <<messagesQ, shown, missed>>
    BY <1>9, TalkWindowStays, Zenon DEF ChatPanel!Write, ChatPanel!page, ChatPanel!queries
  <2>2. post[s].u \in Users /\ post'[s].pc = "done" /\ post'[s].u = post[s].u
    BY <1>9, SMT DEF ChatPanel!Write, TalkPutShape
  <2>3. \A r \in Slots : r # s => post'[r] = post[r]
    BY <1>9, SMT DEF ChatPanel!Write, TalkPutShape
  <2>4. \A u \in Users : u # post[s].u => read'[u] = read[u]
    BY <1>9, SMT DEF ChatPanel!Write, TalkServerShape
  <2>5. post[s].pc = "write"
    BY <1>9 DEF ChatPanel!Write
  <2>6. ASSUME ChatPanel!Window # Nil, ChatPanel!Window \notin missed PROVE TalkReaches(ChatPanel!Window)'
    <3>1. CASE ChatPanel!Window = post[s].u
      BY <2>1, <2>2, <3>1, Zenon DEF TalkReaches
    <3>2. CASE ChatPanel!Window # post[s].u
      <4>1. TalkReaches(ChatPanel!Window) /\ read'[ChatPanel!Window] = read[ChatPanel!Window]
        BY <1>8, <2>4, <2>6, <3>2, Zenon
      <4>2. \A r \in Slots : post[r].pc = "done" => post'[r] = post[r]
        BY <2>3, <2>5
      <4>3. QED
        BY <2>1, <4>1, <4>2, Zenon DEF TalkReaches
    <3>3. QED
      BY <3>1, <3>2, Zenon
  <2>7. QED
    BY <1>6, <1>7, <1>8, <2>1, <2>6, Zenon
<1>10. ASSUME NEW s \in Slots, ChatPanel!Done(s) PROVE TalkReadReaches'
  <2>1. ChatPanel!Window' = ChatPanel!Window /\ messagesQ' = ChatPanel!Invalidated
    BY <1>10, TalkWindowStays, Zenon DEF ChatPanel!Done
  <2>2. ChatPanel!Window # Nil => messagesQ'.pc = "ask" /\ messagesQ'.key = ChatPanel!Window
    BY <2>1, SMT DEF ChatPanel!Invalidated
  <2>3. QED
    BY <1>6, <1>7, <2>1, <2>2, Zenon DEF TalkReaches
<1>11. ASSUME NEW s \in Slots, ChatPanel!PutFails(s) PROVE TalkReadReaches'
  <2>1. ChatPanel!Window' = ChatPanel!Window /\ UNCHANGED <<messagesQ, shown, read>> /\
          missed' = missed \cup {post[s].u}
    BY <1>11, TalkWindowStays, Zenon DEF ChatPanel!PutFails, ChatPanel!Lost, ChatPanel!page, ChatPanel!queries
  <2>2. \A r \in Slots : r # s => post'[r] = post[r]
    BY <1>11, SMT DEF ChatPanel!PutFails, TalkPutShape
  <2>3. ASSUME ChatPanel!Window # Nil, ChatPanel!Window \notin missed' PROVE TalkReaches(ChatPanel!Window)'
    <3>1. ChatPanel!Window # post[s].u /\ TalkReaches(ChatPanel!Window)
      BY <1>8, <2>1, <2>3, Zenon
    <3>2. QED
      BY <2>1, <2>2, <3>1, Zenon DEF TalkReaches
  <2>4. QED
    BY <1>6, <1>7, <1>8, <2>1, <2>3, Zenon
<1>12. ASSUME NEW s \in Slots, NEW kind \in {"send", "close", "open"}, ChatPanel!Click(s, kind) PROVE TalkReadReaches'
  <2>1. ChatPanel!Window' = ChatPanel!Window /\ UNCHANGED <<messagesQ, shown, read, missed>>
    BY <1>12, TalkWindowStays, Zenon DEF ChatPanel!Click, ChatPanel!Move, ChatPanel!page, ChatPanel!queries
  <2>2. \A r \in Slots : post[r].pc # "idle" => post'[r] = post[r]
    BY <1>12, SMT DEF ChatPanel!Click, ChatPanel!Busy, TalkPutShape
  <2>3. ASSUME ChatPanel!Window # Nil, ChatPanel!Window \notin missed PROVE TalkReaches(ChatPanel!Window)'
    <3>1. TalkReaches(ChatPanel!Window)
      BY <1>8, <2>3, Zenon
    <3>2. \A r \in Slots : post[r].pc = "done" => post'[r] = post[r]
      BY <2>2
    <3>3. QED
      BY <2>1, <3>1, <3>2, Zenon DEF TalkReaches
  <2>4. QED
    BY <1>6, <1>7, <1>8, <2>1, <2>3, Zenon
<1>13. CASE ChatPanel!AskMessages
  <2>1. ChatPanel!Window' = ChatPanel!Window
    BY <1>13, TalkWindowStays, Zenon DEF ChatPanel!AskMessages, ChatPanel!page
  <2>2. messagesQ'.pc = "ask" /\ messagesQ'.key = ChatPanel!Window
    BY <1>13, SMT DEF ChatPanel!AskMessages
  <2>3. QED
    BY <1>6, <1>7, <2>1, <2>2, Zenon DEF TalkReaches
<1>14. CASE ChatPanel!ReadMessages
  <2>1. ChatPanel!Window' = ChatPanel!Window /\ UNCHANGED <<read, missed>>
    BY <1>14, TalkWindowStays, Zenon DEF ChatPanel!ReadMessages, ChatPanel!page
  <2>2. messagesQ.pc # "idle" /\ messagesQ'.pc = "answer" /\ messagesQ'.key = messagesQ.key /\
          messagesQ'.data = talk[messagesQ.key].n
    BY <1>14, SMT DEF ChatPanel!ReadMessages
  <2>3. ChatPanel!Window # Nil => read'[ChatPanel!Window] <= messagesQ'.data
    BY <1>8, <2>1, <2>2, SMT DEF TalkServerShape
  <2>4. ChatPanel!Window # Nil => messagesQ'.key = ChatPanel!Window
    BY <1>8, <2>2, Zenon
  <2>5. QED
    BY <1>6, <1>7, <2>1, <2>2, <2>3, <2>4, Zenon DEF TalkReaches
<1>15. CASE ChatPanel!AnswerMessages
  <2>1. ChatPanel!Window' = ChatPanel!Window /\ UNCHANGED <<post, read, missed>>
    BY <1>15, TalkWindowStays, Zenon DEF ChatPanel!AnswerMessages, ChatPanel!page
  <2>2. messagesQ.pc = "answer" /\ messagesQ'.pc = "idle"
    BY <1>15, SMT DEF ChatPanel!AnswerMessages, ChatPanel!NoQuery
  <2>3. messagesQ.key \in Users => shown'[messagesQ.key] = messagesQ.data
    BY <1>15, SMT DEF ChatPanel!AnswerMessages, TalkMessagesShape
  <2>4. ASSUME ChatPanel!Window # Nil, ChatPanel!Window \notin missed PROVE TalkReaches(ChatPanel!Window)'
    <3>1. messagesQ.key = ChatPanel!Window /\ ChatPanel!Window \in Users /\ TalkReaches(ChatPanel!Window)
      BY <1>8, <2>2, <2>4
    <3>2. (\E r \in Slots : post[r].pc = "done" /\ post[r].u = ChatPanel!Window) \/
            read[ChatPanel!Window] <= messagesQ.data
      BY <2>2, <3>1 DEF TalkReaches
    <3>3. QED
      BY <2>1, <2>2, <2>3, <3>1, <3>2, Zenon DEF TalkReaches
  <2>5. QED
    BY <1>6, <1>7, <2>1, <2>2, <2>4, Zenon
<1>16. CASE ChatPanel!MessagesFail
  <2>1. ChatPanel!Window' = ChatPanel!Window /\ messagesQ.pc = "ask" /\ missed' = missed \cup {messagesQ.key}
    BY <1>16, TalkWindowStays, Zenon DEF ChatPanel!MessagesFail, ChatPanel!page
  <2>2. messagesQ'.pc = "idle"
    BY <1>16, SMT DEF ChatPanel!MessagesFail, ChatPanel!NoQuery
  <2>3. ChatPanel!Window # Nil => messagesQ.key = ChatPanel!Window
    BY <1>8, <2>1
  <2>4. QED
    BY <1>6, <1>7, <2>1, <2>2, <2>3, Zenon
<1>17. ASSUME UNCHANGED <<tab, selected, list, messagesQ, shown, post, read, missed>> PROVE TalkReadReaches'
  <2>1. ChatPanel!Window' = ChatPanel!Window
    BY <1>17, TalkWindowStays, Zenon
  <2>2. ChatPanel!Window # Nil => (TalkReaches(ChatPanel!Window)' <=> TalkReaches(ChatPanel!Window))
    BY <1>17, <2>1, Zenon DEF TalkReaches
  <2>3. QED
    BY <1>6, <1>7, <1>8, <1>17, <2>1, <2>2, Zenon
<1>18. QED
  BY <1>3, <1>4, <1>5, <1>9, <1>10, <1>11, <1>12, <1>13, <1>14, <1>15, <1>16, <1>17, Zenon DEF ChatPanel!Next,
       ChatPanel!CustomerWrites, ChatPanel!OtherReads, ChatPanel!OtherCloses, ChatPanel!Turn, ChatPanel!Type,
       ChatPanel!AskList, ChatPanel!ThreadsFail, ChatPanel!ReadThreads, ChatPanel!ReadLegacy, ChatPanel!Move,
       ChatPanel!Lost, ChatPanel!server, ChatPanel!page, ChatPanel!queries, ChatPanel!vars

LEMMA TalkHolds ==
    ChatPanel!ChatPanelAssumption =>
      (ChatPanel!Init /\ [][ChatPanel!Next]_(ChatPanel!vars) =>
          []ChatPanel!TypeOK /\ []ChatPanel!DraftGoesToItsThread /\ []ChatPanel!ReadIsShown)
<1> SUFFICES ASSUME ChatPanel!ChatPanelAssumption
             PROVE  ChatPanel!Init /\ [][ChatPanel!Next]_(ChatPanel!vars) =>
                    []ChatPanel!TypeOK /\ []ChatPanel!DraftGoesToItsThread /\ []ChatPanel!ReadIsShown
  OBVIOUS
<1>1. ChatPanel!Init => TalkInv
  BY TalkChatInit
<1>2. TalkInv /\ [ChatPanel!Next]_(ChatPanel!vars) => TalkInv'
  BY TalkServerShapeStep, TalkPageShapeStep, TalkPutShapeStep, TalkMessagesShapeStep, TalkDraftOfWindowStep,
     TalkDraftGoesStep, TalkReadReachesStep
     DEF TalkInv, TalkChatShape
<1>3. TalkInv => ChatPanel!TypeOK
  BY SMT DEF TalkInv, TalkChatShape, TalkServerShape, TalkPageShape, TalkMessagesShape, ChatPanel!TypeOK, TalkRow
<1>4. TalkInv => ChatPanel!ReadIsShown
  <2> SUFFICES ASSUME TalkInv, ChatPanel!Window \notin missed \cup {Nil}, ~ChatPanel!Busy, messagesQ.pc = "idle",
                      shown[ChatPanel!Window] # Nil
               PROVE  read[ChatPanel!Window] <= shown[ChatPanel!Window]
    BY Zenon DEF ChatPanel!ReadIsShown
  <2>1. TalkReaches(ChatPanel!Window)
    BY Zenon DEF TalkInv, TalkReadReaches
  <2>2. \A s \in Slots : post[s].pc # "done"
    BY DEF ChatPanel!Busy
  <2>3. QED
    BY <2>1, <2>2 DEF TalkReaches
<1>5. TalkInv => ChatPanel!DraftGoesToItsThread
  BY DEF TalkInv
<1>6. QED
  BY <1>1, <1>2, <1>3, <1>4, <1>5, PTL
-----------------------------------------------------------------------------
(***************************************************************************)
(* The chat of the app: ChatApp.                                           *)
(***************************************************************************)
(* The handler is set once, and what is shown is what came, turned round.  *)
CappShape ==
    /\ listeners = 1 /\ loading \in BOOLEAN /\ others \in 0..MaxOthers
    /\ came \in Seq(Nat) /\ messages \in Seq(Nat) /\ Len(messages) <= others
    /\ outbox # ChatApp!Nothing => outbox.length \in Texts

CappInv == CappShape /\ ChatApp!ShownAsTheyCame

(* What is turned round after one more has come begins with it.            *)
LEMMA CappReverseAppend ==
    ASSUME NEW s \in Seq(Nat), NEW e \in Nat
    PROVE  ChatApp!Reverse(Append(s, e)) = [i \in 1..1 |-> e] \o ChatApp!Reverse(s)
<1> DEFINE n == Len(s)
           t == Append(s, e)
           one == [i \in 1..1 |-> e]
           r == ChatApp!Reverse(s)
<1>1. n \in Nat /\ DOMAIN s = 1..n /\ \A i \in 1..n : s[i] \in Nat
  BY LenProperties
<1>2. Len(t) = n + 1 /\ (\A i \in 1..n : t[i] = s[i]) /\ t[n + 1] = e
  BY AppendProperties
<1> HIDE DEF t
<1>3. r = [i \in 1..n |-> s[(n - i) + 1]]
  BY DEF ChatApp!Reverse
<1>4. r \in Seq(Nat) /\ Len(r) = n
  <2>1. \A i \in 1..n : (n - i) + 1 \in 1..n
    BY <1>1, SMT
  <2>2. \A i \in 1..n : s[(n - i) + 1] \in Nat
    BY <1>1, <2>1
  <2> HIDE DEF n, r
  <2>3. QED
    BY <1>1, <1>3, <2>2, SMT
<1>5. one \in Seq(Nat) /\ Len(one) = 1 /\ one[1] = e
  BY SMT
<1>6. ChatApp!Reverse(t) = [i \in 1..(n + 1) |-> t[(n + 1 - i) + 1]]
  BY <1>2 DEF ChatApp!Reverse
<1> HIDE DEF n, r, one
<1>7. /\ one \o r \in Seq(Nat) /\ Len(one \o r) = 1 + n
      /\ \A i \in 1..(1 + n) : (one \o r)[i] = IF i <= 1 THEN one[i] ELSE r[i - 1]
  <2>1. /\ one \o r \in Seq(Nat) /\ Len(one \o r) = Len(one) + Len(r)
        /\ \A i \in 1..(Len(one) + Len(r)) : (one \o r)[i] = IF i <= Len(one) THEN one[i] ELSE r[i - Len(one)]
    BY <1>4, <1>5, ConcatProperties
  <2>2. QED
    BY <1>4, <1>5, <2>1, Zenon
<1>8. DOMAIN (one \o r) = 1..(n + 1)
  BY <1>1, <1>7, LenProperties, SMT
<1>9. \A i \in 1..(n + 1) : t[(n + 1 - i) + 1] = (one \o r)[i]
  <2> SUFFICES ASSUME NEW i \in 1..(n + 1) PROVE t[(n + 1 - i) + 1] = (one \o r)[i]
    OBVIOUS
  <2>1. CASE i = 1
    <3>1. (n + 1 - i) + 1 = n + 1 /\ i <= 1 /\ i \in 1..(1 + n)
      BY <1>1, <2>1, SMT
    <3>2. QED
      BY <1>2, <1>5, <1>7, <2>1, <3>1, Zenon
  <2>2. CASE i # 1
    <3>1. ~(i <= 1) /\ i \in 1..(1 + n) /\ i - 1 \in 1..n /\ (n + 1 - i) + 1 = (n - (i - 1)) + 1 /\
            (n + 1 - i) + 1 \in 1..n
      BY <1>1, <2>2, SMT
    <3>2. (one \o r)[i] = r[i - 1] /\ r[i - 1] = s[(n - (i - 1)) + 1]
      BY <1>3, <1>7, <3>1, Zenon
    <3>3. QED
      BY <1>2, <3>1, <3>2, Zenon
  <2>3. QED
    BY <2>1, <2>2
<1>10. ChatApp!Reverse(t) = one \o r
  <2> DEFINE w == one \o r
  <2>1. w = [i \in 1..(n + 1) |-> w[i]]
    BY <1>1, <1>7, <1>8, LenProperties, Zenon
  <2>2. \A i \in 1..(n + 1) : t[(n + 1 - i) + 1] = w[i]
    BY <1>9
  <2> HIDE DEF w
  <2>3. QED
    BY <1>6, <2>1, <2>2 DEF w
<1>11. QED
  BY <1>10 DEF t, one, r

LEMMA CappInvStep == ASSUME ChatApp!ChatAppAssumption, CappInv, [ChatApp!Next]_(ChatApp!vars) PROVE CappInv'
<1> USE DEF CappInv, CappShape, ChatApp!ShownAsTheyCame, ChatApp!ChatAppAssumption
<1>1. CASE ChatApp!NewMessage
  <2>1. others \in Nat /\ others' = others + 1 /\ others' \in 0..MaxOthers /\ others' \in Nat
    BY <1>1, SMT DEF ChatApp!NewMessage
  <2>2. UNCHANGED <<listeners, loading, outbox>>
    BY <1>1, Zenon DEF ChatApp!NewMessage
  <2>3. CASE link
    <3>1. messages' = [i \in 1..1 |-> others'] \o messages /\ came' = Append(came, others')
      BY <1>1, <2>3, Zenon DEF ChatApp!NewMessage
    <3>2. messages' = ChatApp!Reverse(came')
      BY <2>1, <3>1, CappReverseAppend
    <3>3. came' \in Seq(Nat)
      BY <2>1, <3>1, AppendProperties
    <3>4. [i \in 1..1 |-> others'] \in Seq(Nat) /\ Len([i \in 1..1 |-> others']) = 1
      BY <2>1, SMT
    <3>5. messages' \in Seq(Nat) /\ Len(messages') = 1 + Len(messages) /\ Len(messages) \in Nat
      BY <3>1, <3>4, ConcatProperties, LenProperties
    <3>6. Len(messages') <= others'
      BY <2>1, <3>5, SMT
    <3>7. QED
      BY <2>1, <2>2, <3>2, <3>3, <3>5, <3>6, Zenon
  <2>4. CASE ~link
    <3>1. UNCHANGED <<messages, came>>
      BY <1>1, <2>4, Zenon DEF ChatApp!NewMessage
    <3>2. Len(messages) \in Nat
      BY LenProperties
    <3>3. Len(messages) <= others'
      BY <2>1, <3>2, SMT
    <3>4. QED
      BY <2>1, <2>2, <3>1, <3>3, Zenon
  <2>5. QED
    BY <2>3, <2>4
<1>2. ASSUME NEW n \in Texts, ChatApp!Send(n) PROVE CappInv'
  <2>1. outbox' = [text |-> TRUE, length |-> n] /\ UNCHANGED <<listeners, loading, messages, others, came>>
    BY <1>2, Zenon DEF ChatApp!Send, ChatApp!screen
  <2>2. QED
    BY <2>1, Zenon
<1>3. CASE ChatApp!Connect \/ ChatApp!Drop \/ ChatApp!LoadMore \/ ChatApp!HistoryReturned \/ ChatApp!SendHandled \/
             UNCHANGED ChatApp!vars
  <2>1. listeners' = 1 /\ UNCHANGED <<loading, messages, others, came>> /\
          (outbox' = ChatApp!Nothing \/ outbox' = outbox)
    BY <1>3, Zenon DEF ChatApp!Connect, ChatApp!Drop, ChatApp!LoadMore, ChatApp!HistoryReturned, ChatApp!SendHandled,
         ChatApp!vars, ChatApp!screen, ChatApp!Listening
  <2>2. QED
    BY <2>1, Zenon
<1>4. QED
  BY <1>1, <1>2, <1>3, Zenon DEF ChatApp!Next

LEMMA CappHolds ==
    ChatApp!ChatAppAssumption =>
      (ChatApp!Init /\ [][ChatApp!Next]_(ChatApp!vars) => []ChatApp!TypeOK /\ []ChatApp!ShownAsTheyCame)
<1> SUFFICES ASSUME ChatApp!ChatAppAssumption
             PROVE  ChatApp!Init /\ [][ChatApp!Next]_(ChatApp!vars) => []ChatApp!TypeOK /\ []ChatApp!ShownAsTheyCame
  OBVIOUS
<1>1. ChatApp!Init => CappInv
  BY SMT DEF ChatApp!Init, CappInv, CappShape, ChatApp!ShownAsTheyCame, ChatApp!Reverse, ChatApp!ChatAppAssumption
<1>2. CappInv /\ [ChatApp!Next]_(ChatApp!vars) => CappInv'
  BY CappInvStep
<1>3. CappInv => ChatApp!TypeOK /\ ChatApp!ShownAsTheyCame
  BY DEF CappInv, CappShape, ChatApp!TypeOK
<1>4. QED
  BY <1>1, <1>2, <1>3, PTL
-----------------------------------------------------------------------------
(***************************************************************************)
(* All of them together.                                                 *)
(***************************************************************************)
LEMMA NewsIs == Spec => NewsRows!Init /\ [][NewsRows!Next]_(NewsRows!vars)
<1>1. Init => NewsRows!Init
  BY DEF Init
<1>2. [Next]_vars => [NewsRows!Next]_(NewsRows!vars)
  BY DEF Next, InNews, InNewsPage, InFeed, InPrices, InPricePage, InGateway, InChatPage, InChatScreen, vars, newsRows,
       NewsRows!vars
<1>3. QED
  BY <1>1, <1>2, PTL DEF Spec

LEMMA LeafIs == Spec => NewsPage!Init /\ [][NewsPage!Next]_(NewsPage!vars)
<1>1. Init => NewsPage!Init
  BY DEF Init
<1>2. [Next]_vars => [NewsPage!Next]_(NewsPage!vars)
  BY DEF Next, InNews, InNewsPage, InFeed, InPrices, InPricePage, InGateway, InChatPage, InChatScreen, vars, newsPage,
       NewsPage!vars
<1>3. QED
  BY <1>1, <1>2, PTL DEF Spec

LEMMA FeedIs == Spec => NewsFeed!Init /\ [][NewsFeed!Next]_(NewsFeed!vars)
<1>1. Init => NewsFeed!Init
  BY DEF Init
<1>2. [Next]_vars => [NewsFeed!Next]_(NewsFeed!vars)
  BY DEF Next, InNews, InNewsPage, InFeed, InPrices, InPricePage, InGateway, InChatPage, InChatScreen, vars, feed,
       NewsFeed!vars
<1>3. QED
  BY <1>1, <1>2, PTL DEF Spec

LEMMA PriceIs == Spec => GoldPrice!Init /\ [][GoldPrice!Next]_(GoldPrice!vars)
<1>1. Init => GoldPrice!Init
  BY DEF Init
<1>2. [Next]_vars => [GoldPrice!Next]_(GoldPrice!vars)
  BY DEF Next, InNews, InNewsPage, InFeed, InPrices, InPricePage, InGateway, InChatPage, InChatScreen, vars, priceRows,
       GoldPrice!vars
<1>3. QED
  BY <1>1, <1>2, PTL DEF Spec

LEMMA ChartIs == Spec => GoldPanel!Init /\ [][GoldPanel!Next]_(GoldPanel!vars)
<1>1. Init => GoldPanel!Init
  BY DEF Init
<1>2. [Next]_vars => [GoldPanel!Next]_(GoldPanel!vars)
  BY DEF Next, InNews, InNewsPage, InFeed, InPrices, InPricePage, InGateway, InChatPage, InChatScreen, vars, pricePage,
       GoldPanel!vars
<1>3. QED
  BY <1>1, <1>2, PTL DEF Spec

LEMMA GateIs == Spec => Chat!Init /\ [][Chat!Next]_(Chat!vars)
<1>1. Init => Chat!Init
  BY DEF Init
<1>2. [Next]_vars => [Chat!Next]_(Chat!vars)
  BY DEF Next, InNews, InNewsPage, InFeed, InPrices, InPricePage, InGateway, InChatPage, InChatScreen, vars, gateway,
       Chat!vars
<1>3. QED
  BY <1>1, <1>2, PTL DEF Spec

LEMMA TalkIs == Spec => ChatPanel!Init /\ [][ChatPanel!Next]_(ChatPanel!vars)
<1>1. Init => ChatPanel!Init
  BY DEF Init
<1>2. [Next]_vars => [ChatPanel!Next]_(ChatPanel!vars)
  BY DEF Next, InNews, InNewsPage, InFeed, InPrices, InPricePage, InGateway, InChatPage, InChatScreen, vars, chatPage,
       ChatPanel!vars
<1>3. QED
  BY <1>1, <1>2, PTL DEF Spec

LEMMA CappIs == Spec => ChatApp!Init /\ [][ChatApp!Next]_(ChatApp!vars)
<1>1. Init => ChatApp!Init
  BY DEF Init
<1>2. [Next]_vars => [ChatApp!Next]_(ChatApp!vars)
  BY DEF Next, InNews, InNewsPage, InFeed, InPrices, InPricePage, InGateway, InChatPage, InChatScreen, vars, chatScreen,
       ChatApp!vars
<1>3. QED
  BY <1>1, <1>2, PTL DEF Spec

(* The part chosen at the start is one of the nine.                        *)
PartOK ==
    part \in {"news", "form", "news page", "feed", "prices", "price page", "gateway", "chat page", "chat screen"}

LEMMA PartStays == Spec => []PartOK
<1>1. Init => PartOK
  BY DEF Init, PartOK
<1>2. PartOK /\ [Next]_vars => PartOK'
  BY DEF Next, InNews, InNewsPage, InFeed, InPrices, InPricePage, InGateway, InChatPage, InChatScreen, vars, PartOK
<1>3. QED
  BY <1>1, <1>2, PTL DEF Spec

(* What each part keeps, for the specification of them all.                *)
LEMMA EachHolds ==
    Spec => /\ []NewsRows!TypeOK /\ []NewsRows!FlagFollowsStatus /\ []NewsRows!WrittenFromItsItem /\ NewsRows!DateStays
            /\ []NewsPage!TypeOK /\ []NewsPage!CardCountsItsList /\ []NewsPage!OwnChangeShown
            /\ NewsPage!OnlyShorterListsStrand
            /\ []NewsFeed!TypeOK /\ []NewsFeed!OnlyAdditionsRepeat /\ []NewsFeed!AdditionsHideNone
            /\ []GoldPrice!TypeOK /\ []GoldPrice!StoredChangeChains /\ []GoldPrice!ShownChangeAgrees
            /\ []GoldPanel!TypeOK /\ []GoldPanel!OwnPriceEverywhere /\ []GoldPanel!ChartHasItsRange
            /\ GoldPanel!TypedStays
            /\ []Chat!TypeOK /\ []Chat!ClientsAreThere /\ []Chat!ThreadIsUpToDate
            /\ []ChatPanel!TypeOK /\ []ChatPanel!DraftGoesToItsThread /\ []ChatPanel!ReadIsShown
            /\ []ChatApp!TypeOK /\ []ChatApp!ShownAsTheyCame
<1>1. Spec => /\ []NewsRows!TypeOK /\ []NewsRows!FlagFollowsStatus /\ []NewsRows!WrittenFromItsItem
              /\ NewsRows!DateStays
  BY NewsIs, NewsHolds, ContentAssumption, PTL
<1>2. Spec => /\ []NewsPage!TypeOK /\ []NewsPage!CardCountsItsList /\ []NewsPage!OwnChangeShown
              /\ NewsPage!OnlyShorterListsStrand
  BY LeafIs, LeafHolds, ContentAssumption, PTL
<1>3. Spec => []NewsFeed!TypeOK /\ []NewsFeed!OnlyAdditionsRepeat /\ []NewsFeed!AdditionsHideNone
  BY FeedIs, FeedHolds, ContentAssumption, PTL
<1>4. Spec => []GoldPrice!TypeOK /\ []GoldPrice!StoredChangeChains /\ []GoldPrice!ShownChangeAgrees
  BY PriceIs, PriceHolds, ContentAssumption, PTL
<1>5. Spec => /\ []GoldPanel!TypeOK /\ []GoldPanel!OwnPriceEverywhere /\ []GoldPanel!ChartHasItsRange
              /\ GoldPanel!TypedStays
  BY ChartIs, ChartHolds, ContentAssumption, PTL
<1>6. Spec => []Chat!TypeOK /\ []Chat!ClientsAreThere /\ []Chat!ThreadIsUpToDate
  BY GateIs, GateHolds, ContentAssumption, PTL
<1>7. Spec => []ChatPanel!TypeOK /\ []ChatPanel!DraftGoesToItsThread /\ []ChatPanel!ReadIsShown
  BY TalkIs, TalkHolds, ContentAssumption, PTL
<1>8. Spec => []ChatApp!TypeOK /\ []ChatApp!ShownAsTheyCame
  BY CappIs, CappHolds, ContentAssumption, PTL
<1>9. QED
  BY <1>1, <1>2, <1>3, <1>4, <1>5, <1>6, <1>7, <1>8, PTL

(* Rows, queries, pages, sockets and messages of all nine parts keep their *)
(* shapes, for any constants that satisfy ContentAssumption.               *)
THEOREM TypeCorrect == Spec => []TypeOK
<1>1. /\ PartOK
      /\ NewsRows!TypeOK /\ NewsPage!TypeOK /\ NewsFeed!TypeOK /\ GoldPrice!TypeOK /\ GoldPanel!TypeOK /\ Chat!TypeOK
      /\ ChatPanel!TypeOK /\ ChatApp!TypeOK
      => TypeOK
  BY DEF TypeOK, PartOK
<1>2. QED
  BY <1>1, EachHolds, PartStays, PTL

(* A price is the same wherever it is seen: the change stored with a row   *)
(* is the one from the row before it and the one the app computes, unless  *)
(* two rows were added at once; card, chart and table have a rate that was *)
(* announced, and the chart every row of its range; for any rows at the    *)
(* start and any additions at once.                                        *)
THEOREM PricesTheSame == Spec => []PricesAgree
<1>1. /\ GoldPrice!StoredChangeChains /\ GoldPrice!ShownChangeAgrees
      /\ GoldPanel!OwnPriceEverywhere /\ GoldPanel!ChartHasItsRange
      => PricesAgree
  BY DEF PricesAgree
<1>2. QED
  BY <1>1, EachHolds, PTL

(* The chat: sockets kept for sending are there and were let in; a thread  *)
(* is what its messages say; what is sent to a customer was typed for that *)
(* customer, and what was marked as read is shown; the app shows every     *)
(* message once, in order; for any customers, sockets and requests.        *)
THEOREM ThreadsTrue == Spec => []ThreadsAgree
<1>1. /\ Chat!ClientsAreThere /\ Chat!ThreadIsUpToDate /\ ChatPanel!DraftGoesToItsThread /\ ChatPanel!ReadIsShown
      /\ ChatApp!ShownAsTheyCame
      => ThreadsAgree
  BY DEF ThreadsAgree
<1>2. QED
  BY <1>1, EachHolds, PTL

(* The news: flag, status and date of a row agree whoever writes them, a   *)
(* form writes what it took from its own row, the cards of the page count  *)
(* what it lists and nothing stays behind an announcement, and the pages   *)
(* of the feed repeat and hide only what the moves explain; for any news,  *)
(* filters, sizes of a page and changes.                                   *)
THEOREM RowsTrue == Spec => []RowsAgree
<1>1. /\ NewsRows!FlagFollowsStatus /\ NewsRows!WrittenFromItsItem /\ NewsPage!CardCountsItsList
      /\ NewsPage!OwnChangeShown
      /\ NewsFeed!OnlyAdditionsRepeat /\ NewsFeed!AdditionsHideNone
      => RowsAgree
  BY DEF RowsAgree
<1>2. QED
  BY <1>1, EachHolds, PTL

(* No step takes back what another actor left: the date of the first       *)
(* publication, what is typed into the price dialog, and the page of the   *)
(* news table while its list is long enough.                               *)
THEOREM NoneTakenBack == Spec => NothingTakenBack
  BY EachHolds, PTL DEF NothingTakenBack
=============================================================================
