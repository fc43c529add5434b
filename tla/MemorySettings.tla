--------------------------- MODULE MemorySettings ---------------------------
(***************************************************************************)
(* The list of memories in the settings of the browser:                    *)
(* apps/web/src/views/MemorySettingsView.vue on memorySettingsState.ts,    *)
(* with the pages that list_memories of apps/api/routes/memories.py        *)
(* answers.                                                                *)
(*                                                                         *)
(* A request has two moments: the server reads or writes when it serves    *)
(* it, the view goes on when the answer arrives.  The guards on the view's *)
(* operations are what its template enables: chips while nothing loads,    *)
(* rows and the form while no form is being saved and nothing deleted, and *)
(* nothing behind the modal form.  Other writers of the user's memories    *)
(* (the capture after an answer) are left out; what they may do to a list  *)
(* already fetched is that it is old.                                      *)
(***************************************************************************)
EXTENDS Integers, Sequences, FiniteSets, FiniteSetsExt, NoValue

CONSTANTS
    Memories,    \* how many ids of memories there are
    Category,    \* categories of memories
    PageSize,    \* rows of a page
    MaxStamp,    \* bound on the writes: each gets a later updated_at
    MaxReads     \* bound on the pages asked for

VARIABLES
    store,       \* the server's rows of the user: [category, stamp] by id
    lastStamp,       \* the last updated_at given
    rows,        \* what the view shows, in order: [id, category]
    selected,    \* the category chosen, or None for all
    cursor,      \* nextCursor: the stamp of the last row of the last page, or None
    loading,     \* initialLoading
    more,        \* loadingMore
    listError,   \* initialListError
    reads,       \* the page requests, by number: [append, category, cursor, answer]
    current,     \* the request whose answer counts, or None
    form,        \* None, or the form: [id (or None), category, saving, answer]
    deleting,    \* None, or [id, served, seen]: seen if a page was asked for meanwhile
    unsure       \* ids whose write failed for the view, yet may have been done

settingsVars == <<store, lastStamp, rows, selected, cursor, loading, more, listError,
                  reads, current, form, deleting, unsure>>
serverVars == <<store, lastStamp>>
listVars == <<rows, selected, cursor, loading, more, listError, reads, current>>

Memory == 1..Memories
MemoryRow == [id : Memory, category : Category]
PageAnswer == [items : Seq(MemoryRow), next : Nat \cup {None}]
MemoryForm == [id : Memory \cup {None}, category : Category, saving : BOOLEAN,
               answer : Memory \cup {None}]
Deletion == [id : Memory, served : BOOLEAN, seen : BOOLEAN]

ASSUME SettingsAssumption ==
    /\ PageSize \in Nat \ {0} /\ Memories \in Nat
    /\ None \notin Nat \cup Category \cup PageAnswer \cup MemoryForm \cup Deletion

InStore == DOMAIN store
Shows(c) == selected \in {None, c}

\* The elements of S by their place, the lowest first.
Listed(S, place) ==
    [k \in 1..Cardinality(S) |->
        CHOOSE x \in S : Cardinality({y \in S : place[y] <= place[x]}) = k]

-----------------------------------------------------------------------------
(* The server *)

\* Ordered by (updated_at, id) descending; updated_at never repeats here, so the id decides
\* nothing.  One row more than the page tells whether there is a next one.
Page(category, from) ==
    LET match == {m \in InStore : /\ category \in {None, store[m].category}
                                  /\ from # None => store[m].stamp < from}
        listed == Listed(match, [m \in match |-> -store[m].stamp])
        count == Min({Cardinality(match), PageSize})
    IN  [items |-> [k \in 1..count |-> [id |-> listed[k],
                                        category |-> store[listed[k]].category]],
         next |-> IF Cardinality(match) > PageSize THEN store[listed[count]].stamp ELSE None]

ServeRead(n) ==
    /\ reads[n].answer = None
    /\ reads' = [reads EXCEPT ![n].answer = Page(reads[n].category, reads[n].cursor)]
    /\ UNCHANGED <<store, lastStamp, rows, selected, cursor, loading, more, listError, current,
                   form, deleting, unsure>>

ServeSave(m) ==
    /\ form # None /\ form.saving /\ form.answer = None
    /\ IF form.id = None THEN m \notin InStore ELSE m = form.id /\ m \in InStore
    /\ lastStamp' = lastStamp + 1
    /\ store' = [o \in InStore \cup {m} |->
                    IF o = m THEN [category |-> form.category, stamp |-> lastStamp'] ELSE store[o]]
    /\ form' = [form EXCEPT !.answer = m]
    /\ UNCHANGED <<listVars, deleting, unsure>>

ServeDelete ==
    /\ deleting # None /\ ~deleting.served
    /\ deleting' = [deleting EXCEPT !.served = TRUE]
    /\ store' = [o \in InStore \ {deleting.id} |-> store[o]]
    /\ UNCHANGED <<lastStamp, listVars, form, unsure>>

-----------------------------------------------------------------------------
(* Loading the list *)

\* listCoordinator.begin: only the latest request counts.
Read(append, category) ==
    /\ Len(reads) < MaxReads
    /\ reads' = Append(reads, [append |-> append, category |-> category,
                               cursor |-> IF append THEN cursor ELSE None, answer |-> None])
    /\ current' = Len(reads')
    /\ deleting' = IF deleting = None THEN None ELSE [deleting EXCEPT !.seen = ~append \/ @]

LoadMore ==
    /\ form = None /\ ~loading /\ ~listError /\ cursor # None /\ ~more
    /\ more' = TRUE
    /\ Read(TRUE, selected)
    /\ UNCHANGED <<serverVars, rows, selected, cursor, loading, listError, form, unsure>>

\* Choosing the category already chosen reloads only after an error.
SelectCategory(c) ==
    /\ form = None /\ ~loading /\ ~more
    /\ selected # c \/ listError
    /\ selected' = c /\ listError' = FALSE /\ loading' = TRUE
    /\ Read(FALSE, c)
    /\ UNCHANGED <<serverVars, rows, cursor, more, form, unsure>>

RetryLoad == listError /\ SelectCategory(selected)

\* An answer of a request that is no longer the latest changes nothing, its flags included.
IsCurrent_Always(n) == TRUE
IsCurrent(n) == n = current

PageArrives(n) ==
    /\ IsCurrent(n) /\ reads[n].answer # None
    /\ current' = None
    /\ rows' = (IF reads[n].append THEN rows ELSE <<>>) \o reads[n].answer.items
    /\ cursor' = reads[n].answer.next
    /\ IF reads[n].append THEN more' = FALSE /\ UNCHANGED loading
       ELSE loading' = FALSE /\ UNCHANGED more
    /\ UNCHANGED <<serverVars, selected, listError, reads, form, deleting, unsure>>

\* A failed append keeps the rows and its button; a failed load hides them.
ReadFails(n) ==
    /\ IsCurrent(n)
    /\ current' = None
    /\ IF reads[n].append THEN more' = FALSE /\ UNCHANGED <<loading, listError>>
       ELSE loading' = FALSE /\ listError' = TRUE /\ UNCHANGED more
    /\ UNCHANGED <<serverVars, rows, selected, cursor, reads, form, deleting, unsure>>

-----------------------------------------------------------------------------
(* The form *)

OpenForm(m, category) ==
    /\ form = None /\ ~loading /\ ~listError
    /\ IF m = None THEN deleting = None \/ rows = <<>>
       ELSE deleting = None /\ \E k \in DOMAIN rows : rows[k].id = m
    /\ form' = [id |-> m, category |-> category, saving |-> FALSE, answer |-> None]
    /\ UNCHANGED <<serverVars, listVars, deleting, unsure>>

CloseForm ==
    /\ form # None /\ ~form.saving
    /\ form' = None
    /\ UNCHANGED <<serverVars, listVars, deleting, unsure>>

Submit ==
    /\ form # None /\ ~form.saving /\ lastStamp < MaxStamp
    /\ form' = [form EXCEPT !.saving = TRUE]
    /\ UNCHANGED <<serverVars, listVars, deleting, unsure>>

\* The rows but those of m, in their order.
RowsWithout(m) ==
    LET others == {k \in DOMAIN rows : rows[k].id # m}
        kept == Listed(others, [k \in others |-> k])
    IN  [j \in DOMAIN kept |-> rows[kept[j]]]

\* syncMemoryAfterSave: a row of another category leaves, a new one comes first, a known one
\* keeps its place.
Synced(m, c) ==
    IF ~Shows(c) THEN RowsWithout(m)
    ELSE IF \E k \in DOMAIN rows : rows[k].id = m
    THEN [k \in DOMAIN rows |-> IF rows[k].id = m THEN [id |-> m, category |-> c] ELSE rows[k]]
    ELSE <<[id |-> m, category |-> c]>> \o rows

\* The save invalidates the reads under way and their flags.
SaveArrives ==
    /\ form # None /\ form.answer # None
    /\ rows' = Synced(form.answer, form.category)
    /\ current' = None
    /\ loading' = FALSE /\ listError' = FALSE /\ more' = FALSE
    /\ form' = None
    /\ UNCHANGED <<serverVars, selected, cursor, reads, deleting, unsure>>

\* The row is gone, the server refuses or the answer is lost: the form stays open.
SaveFails ==
    /\ form # None /\ form.saving
    /\ form' = [form EXCEPT !.saving = FALSE, !.answer = None]
    /\ unsure' = unsure \cup (IF form.answer = None THEN {} ELSE {form.answer})
    /\ UNCHANGED <<serverVars, listVars, deleting>>

-----------------------------------------------------------------------------
(* Deleting *)

Delete(m) ==
    /\ form = None /\ deleting = None /\ ~loading /\ ~listError
    /\ \E k \in DOMAIN rows : rows[k].id = m
    /\ deleting' = [id |-> m, served |-> FALSE, seen |-> FALSE]
    /\ UNCHANGED <<serverVars, listVars, form, unsure>>

\* The row leaves the list shown; a page under way may bring it back.
DeleteArrives ==
    /\ deleting # None /\ deleting.served
    /\ rows' = RowsWithout(deleting.id)
    /\ unsure' = unsure \cup (IF deleting.seen THEN {deleting.id} ELSE {})
    /\ deleting' = None
    /\ UNCHANGED <<serverVars, selected, cursor, loading, more, listError, reads, current, form>>

DeleteFails ==
    /\ deleting # None
    /\ unsure' = unsure \cup (IF deleting.served THEN {deleting.id} ELSE {})
    /\ deleting' = None
    /\ UNCHANGED <<serverVars, listVars, form>>

-----------------------------------------------------------------------------
\* The view opens on some memories, all categories chosen, and asks for the first page.  Ids
\* mean nothing: those stored are numbered by age.
SettingsInit ==
    /\ \E ids \in SUBSET Memory : \E category \in [ids -> Category] :
          store = [m \in ids |-> [category |-> category[m], stamp |-> m]]
    /\ lastStamp = Memories
    /\ rows = <<>> /\ selected = None /\ cursor = None
    /\ loading = TRUE /\ more = FALSE /\ listError = FALSE
    /\ reads = <<[append |-> FALSE, category |-> None, cursor |-> None, answer |-> None]>>
    /\ current = 1
    /\ form = None /\ deleting = None /\ unsure = {}

SettingsNext ==
    \/ \E n \in DOMAIN reads : ServeRead(n) \/ PageArrives(n) \/ ReadFails(n)
    \/ \E c \in Category \cup {None} : SelectCategory(c)
    \/ LoadMore \/ RetryLoad
    \/ \E m \in Memory \cup {None}, c \in Category : OpenForm(m, c)
    \/ \E m \in Memory : ServeSave(m) \/ Delete(m)
    \/ CloseForm \/ Submit \/ SaveArrives \/ SaveFails
    \/ ServeDelete \/ DeleteArrives \/ DeleteFails

SettingsSpec == SettingsInit /\ [][SettingsNext]_settingsVars

-----------------------------------------------------------------------------
\* What is shown is what the server has of the chosen category down to the cursor, every row
\* once: through filters, further pages, saves that move a row between categories and
\* deletions, in whatever order the answers come.  Excepted are the rows of writes that failed
\* for the view only and of deletions during which the list was loaded again, and the list
\* while a save or deletion is under way (loadMemories, submitForm, removeMemory of the view).
ShownIsStored ==
    ~loading /\ ~listError /\ deleting = None /\ (form = None \/ ~form.saving) =>
        /\ \A k, j \in DOMAIN rows : k # j => rows[k].id # rows[j].id
        /\ {rows[k] : k \in DOMAIN rows} \cap [id : Memory \ unsure, category : Category] =
              {[id |-> m, category |-> store[m].category] :
                  m \in {o \in InStore \ unsure :
                            /\ Shows(store[o].category)
                            /\ cursor # None => store[o].stamp >= cursor}}

=============================================================================
