------------------------------ MODULE Settings ------------------------------
(***************************************************************************)
(* The application settings: settings.service.ts of the backend and the    *)
(* form part of the panel's settings page.                                 *)
(*                                                                         *)
(* The backend keeps one row per section and creates the missing ones, one *)
(* query at a time, before every read and every write.  The page gets all  *)
(* sections together, keeps a draft of each, and saves the section of the  *)
(* open tab whole.  Whenever the query brings data that differ from those  *)
(* it had, every draft is replaced, the edited ones too.                   *)
(***************************************************************************)
EXTENDS Naturals, Sequences, FiniteSets

CONSTANTS
    Admins,      \* open settings pages
    Order,       \* SETTINGS_SECTIONS
    Fields,      \* fields of a section
    Typable,     \* values an administrator types
    EnvFields,   \* <<section, field>> pairs the environment overrides
    Default, PanelDefault, Env, \* of getDefaultSettings, of the page, of the environment
    MaxTyped,    \* bound: fields typed
    MaxCalls,    \* bound: requests sent
    Nil          \* "no row", "no data"

Sections == {Order[i] : i \in DOMAIN Order}
Values == Typable \cup {Default, PanelDefault, Env}
Section == [Fields -> Values]

(* What the constants have to be.                                          *)
SettingsAssumption ==
    /\ Order \in Seq(Sections) \ {<<>>}
    /\ EnvFields \subseteq Sections \X Fields
    /\ Nil \notin Section /\ Nil \notin Sections
    /\ MaxTyped \in Nat /\ MaxCalls \in Nat

VARIABLES
    stored,   \* stored[s]: AppSetting.value; Nil: no row
    data,     \* data[a]: settingsQ.data; Nil: none yet
    draft,    \* draft[a][s]: the state of the form under tab s; any tab may be open
    get,      \* get[a]: a's GET admin/settings in flight
    put,      \* put[a]: a's PUT admin/settings/:section in flight
    typed, calls,  \* counters
    dirty,    \* history: dirty[a]: <<s, f>> typed since the drafts were replaced
    behind    \* history: behind[a]: sections somebody else wrote, or whose
              \* write a was not told of, since data[a] was asked for

page == <<data, draft>>
past == <<dirty, behind>>
vars == <<stored, page, get, put, typed, calls, past>>

Defaults == [f \in Fields |-> Default]
IdleGet == [pc |-> "idle", at |-> 1, read |-> <<>>, missed |-> {}]
IdlePut == [pc |-> "idle", at |-> 1, section |-> Nil, value |-> Nil, edits |-> {}, late |-> FALSE]

Init ==
    /\ stored = [s \in Sections |-> Nil]
    /\ data = [a \in Admins |-> Nil]
    /\ draft = [a \in Admins |-> [s \in Sections |-> [f \in Fields |-> PanelDefault]]]
    /\ get = [a \in Admins |-> IdleGet] /\ put = [a \in Admins |-> IdlePut]
    /\ typed = 0 /\ calls = 0
    /\ dirty = [a \in Admins |-> {}] /\ behind = [a \in Admins |-> {}]

(* getSectionValue and getQPaySettings: the row over the defaults, the     *)
(* environment over the row.                                               *)
View(s) ==
    [f \in Fields |-> IF <<s, f>> \in EnvFields THEN Env
                      ELSE IF stored[s] = Nil THEN Default ELSE stored[s][f]]
-----------------------------------------------------------------------------
(* The page.  isLoading is over when the first fetch has failed, too.      *)
TabLoading(a) == data[a] = Nil /\ get[a].pc # "idle"

(* The fields of the open tab, whether a save is running or not.           *)
Type(a, s, f, v) ==
    /\ ~TabLoading(a) /\ typed < MaxTyped /\ typed' = typed + 1
    /\ draft[a][s][f] # v /\ draft' = [draft EXCEPT ![a][s][f] = v]
    /\ dirty' = [dirty EXCEPT ![a] = @ \cup {<<s, f>>}]
    /\ UNCHANGED <<stored, data, get, put, calls, behind>>

(* Mounting the page or Refresh: a fetch that runs is joined.              *)
Fetch(a) ==
    /\ get[a].pc = "idle" /\ calls < MaxCalls /\ calls' = calls + 1
    /\ get' = [get EXCEPT ![a] = [IdleGet EXCEPT !.pc = "find"]]
    /\ UNCHANGED <<stored, page, put, typed, past>>

(* handleSave, disabled while saving and tabLoading.                       *)
HandleSave(a, s) ==
    /\ put[a].pc = "idle" /\ ~TabLoading(a) /\ calls < MaxCalls /\ calls' = calls + 1
    /\ put' = [put EXCEPT ![a] = [pc |-> "find", at |-> 1, section |-> s, value |-> draft[a][s],
                                  edits |-> {f \in Fields : <<s, f>> \in dirty[a]},
                                  late |-> data[a] = Nil \/ get[a].pc # "idle" \/ s \in behind[a]]]
    /\ UNCHANGED <<stored, page, get, typed, past>>

(* MUTANT of Replace: a form that is being edited keeps its drafts.        *)
ReplaceUnlessDirty(a, d) ==
    /\ data' = [data EXCEPT ![a] = d]
    /\ IF d = data[a] \/ dirty[a] # {} THEN UNCHANGED <<draft, dirty>>
       ELSE draft' = [draft EXCEPT ![a] = d] /\ dirty' = [dirty EXCEPT ![a] = {}]

(* The effect on settingsQ.data: equal data are the same object to it.     *)
Replace(a, d) ==
    /\ data' = [data EXCEPT ![a] = d]
    /\ IF d = data[a] THEN UNCHANGED <<draft, dirty>>
       ELSE draft' = [draft EXCEPT ![a] = d] /\ dirty' = [dirty EXCEPT ![a] = {}]

GetAnswered(a) ==
    /\ get[a].pc = "answer" /\ get' = [get EXCEPT ![a] = IdleGet]
    /\ Replace(a, get[a].read)
    /\ behind' = [behind EXCEPT ![a] = get[a].missed]
    /\ UNCHANGED <<stored, put, typed, calls>>

(* A read fails twice: the old data stay.                                  *)
GetFailed(a) ==
    /\ get[a].pc # "idle" /\ get' = [get EXCEPT ![a] = IdleGet]
    /\ behind' = [behind EXCEPT ![a] = Sections]
    /\ UNCHANGED <<stored, page, put, typed, calls, dirty>>

(* MUTANT of PutAnswered: the query is not invalidated.                    *)
PutAnsweredQuiet(a) ==
    /\ put[a].pc = "answer" /\ put' = [put EXCEPT ![a] = IdlePut]
    /\ UNCHANGED <<stored, page, get, typed, calls, past>>

(* onSuccess invalidates the query: a fetch that runs is replaced.         *)
PutAnswered(a) ==
    /\ put[a].pc = "answer" /\ put' = [put EXCEPT ![a] = IdlePut]
    /\ get' = [get EXCEPT ![a] = [IdleGet EXCEPT !.pc = "find"]]
    /\ UNCHANGED <<stored, page, typed, calls, past>>

(* The request fails; what it wrote stays written.                         *)
PutFailed(a) ==
    LET unknown == IF put[a].pc \in {"log", "answer"} THEN {put[a].section} ELSE {} IN
    /\ put[a].pc # "idle" /\ put' = [put EXCEPT ![a] = IdlePut]
    /\ behind' = [behind EXCEPT ![a] = @ \cup unknown]
    /\ get' = [get EXCEPT ![a].missed = @ \cup unknown]
    /\ UNCHANGED <<stored, page, typed, calls, dirty>>
-----------------------------------------------------------------------------
(* MUTANT of Found: only the first section is looked for.                  *)
FoundFirst(c) ==
    IF c.at = 1 /\ stored[Order[1]] = Nil THEN [c EXCEPT !.pc = "create"] ELSE [c EXCEPT !.pc = "go"]

(* The backend: what becomes of a request's frame c in ensureDefaults.     *)
Found(c) ==
    IF stored[Order[c.at]] = Nil THEN [c EXCEPT !.pc = "create"]
    ELSE IF c.at < Len(Order) THEN [c EXCEPT !.at = @ + 1] ELSE [c EXCEPT !.pc = "go"]

Created(c) ==
    IF c.at < Len(Order) THEN [c EXCEPT !.pc = "find", !.at = @ + 1] ELSE [c EXCEPT !.pc = "go"]

(* MUTANT of Create: an upsert.                                            *)
CreateOver(s) == stored' = [stored EXCEPT ![s] = Defaults]

(* create: the key is unique, a row that came meanwhile fails the request. *)
Create(s) == stored[s] = Nil /\ stored' = [stored EXCEPT ![s] = Defaults]

EnsureDefaults(a) ==
    /\ \/ get[a].pc = "find" /\ get' = [get EXCEPT ![a] = Found(@)] /\ UNCHANGED <<stored, put>>
       \/ put[a].pc = "find" /\ put' = [put EXCEPT ![a] = Found(@)] /\ UNCHANGED <<stored, get>>
       \/ /\ get[a].pc = "create" /\ Create(Order[get[a].at])
          /\ get' = [get EXCEPT ![a] = Created(@)] /\ UNCHANGED put
       \/ /\ put[a].pc = "create" /\ Create(Order[put[a].at])
          /\ put' = [put EXCEPT ![a] = Created(@)] /\ UNCHANGED get
    /\ UNCHANGED <<page, typed, calls, past>>

(* getAllSettings reads the sections by queries of their own.              *)
ReadSection(a, s) ==
    /\ get[a].pc = "go" /\ s \notin DOMAIN get[a].read
    /\ LET r == [k \in DOMAIN get[a].read \cup {s} |-> IF k = s THEN View(s) ELSE get[a].read[k]] IN
       get' = [get EXCEPT ![a].read = r, ![a].pc = IF DOMAIN r = Sections THEN "answer" ELSE "go"]
    /\ UNCHANGED <<stored, page, put, typed, calls, past>>

(* { ...current, ...value }: the page sends every field.                   *)
Overlay(old, value) == [f \in Fields |-> IF f \in DOMAIN value THEN value[f] ELSE old[f]]

(* updateSection reads the section and writes it whole.                    *)
Upsert(a) ==
    LET s == put[a].section IN
    /\ put[a].pc = "go" /\ put' = [b \in Admins |-> IF b = a THEN [put[a] EXCEPT !.pc = "log"]
                              ELSE [put[b] EXCEPT !.late = @ \/ put[b].section = s]]
    /\ stored' = [stored EXCEPT ![s] = Overlay(View(s), put[a].value)]
    /\ behind' = [b \in Admins |-> IF b = a THEN behind[b] ELSE behind[b] \cup {s}]
    /\ get' = [b \in Admins |-> IF b = a THEN get[b] ELSE [get[b] EXCEPT !.missed = @ \cup {s}]]
    /\ UNCHANGED <<page, typed, calls, dirty>>

(* activityLogService.log, and the answer.                                 *)
LogUpdate(a) ==
    /\ put[a].pc = "log" /\ put' = [put EXCEPT ![a].pc = "answer"]
    /\ UNCHANGED <<stored, page, get, typed, calls, past>>

Next ==
    \E a \in Admins :
       \/ \E s \in Sections : HandleSave(a, s) \/ ReadSection(a, s)
                             \/ \E f \in Fields, v \in Typable : Type(a, s, f, v)
       \/ Fetch(a) \/ GetAnswered(a) \/ GetFailed(a)
       \/ PutAnswered(a) \/ PutFailed(a)
       \/ EnsureDefaults(a) \/ Upsert(a) \/ LogUpdate(a)

Spec == Init /\ [][Next]_vars
-----------------------------------------------------------------------------
TypeOK ==
    /\ stored \in [Sections -> Section \cup {Nil}]
    /\ \A a \in Admins :
          /\ data[a] = Nil \/ data[a] \in [Sections -> Section]
          /\ draft[a] \in [Sections -> Section]
          /\ dirty[a] \subseteq Sections \X Fields /\ behind[a] \subseteq Sections
          /\ get[a].pc \in {"idle", "find", "create", "go", "answer"}
          /\ get[a].pc = "answer" => get[a].read \in [Sections -> Section]
          /\ put[a].pc \in {"idle", "find", "create", "go", "log", "answer"}
          /\ put[a].pc \in {"go", "log", "answer"} => stored[put[a].section] # Nil

(***************************************************************************)
(* Ensuring the defaults never takes a setting back, whatever requests     *)
(* find rows missing and create them side by side: a row changes only by a *)
(* save.                                                                   *)
(***************************************************************************)
DefaultsNeverOverwrite ==
    [][\A s \in Sections : stored[s] # Nil /\ stored'[s] # stored[s] =>
          \E a \in Admins : put[a].section = s /\ put[a].pc = "go" /\ put'[a].pc = "log"]_vars

(***************************************************************************)
(* A save changes only what its administrator typed, although it sends the *)
(* whole section: unless the page never got the data (after a failed fetch *)
(* it offers its own defaults for saving) or was getting them again (an    *)
(* answer from before the last save may have replaced the drafts), another *)
(* one wrote the section since the page asked for what it sends, or the    *)
(* environment's value goes into the row.                                  *)
(***************************************************************************)
UntouchedKept ==
    [][\A a \in Admins :
          LET s == put[a].section IN
          put[a].pc = "go" /\ put'[a].pc = "log" /\ ~put[a].late =>
             \A f \in Fields : stored'[s][f] # stored[s][f] =>
                 f \in put[a].edits \/ <<s, f>> \in EnvFields]_vars

(***************************************************************************)
(* When nothing is under way, the page has what the backend serves, unless *)
(* it is behind.  (Its form may still show a value that was saved without  *)
(* effect: see SavedIsServed.)                                             *)
(***************************************************************************)
OwnSaveShown ==
    \A a \in Admins :
        data[a] # Nil /\ get[a].pc = "idle" /\ put[a].pc = "idle" =>
            \A s \in Sections \ behind[a] : data[a][s] = View(s)
=============================================================================
