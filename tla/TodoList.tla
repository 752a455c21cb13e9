------------------------------ MODULE TodoList ------------------------------
(* TodoHandler: the list of todos an agent keeps, as write_todos,          *)
(* update_todo, complete_todo and clear_todos change it.  Identifiers are  *)
(* todo-1, todo-2, ... in the order of creation and nothing is deleted     *)
(* singly, so that the todo with identifier todo-n is the n-th of the list.*)
(* Wording, logs and times are left out.                                   *)
EXTENDS Naturals, Sequences, FiniteSets, FilteredSequences

CONSTANTS
    Titles,       \* titles of todos
    Blank,        \* a title of spaces only
    MaxTodos      \* bound: items of one write_todos call

ASSUME TodoAssumption == Blank \notin Titles /\ MaxTodos \in Nat

VARIABLES
    todos,        \* _todos, in order of creation
    written       \* history: what write_todos was given, if nothing changed since
todoVars == <<todos, written>>

Statuses == {"todo", "doing", "done"}
(* A plain string in the list has no status.                               *)
Items == [title : Titles \cup {Blank}, status : Statuses \cup {"none"}]
Writes == UNION { [1 .. n -> Items] : n \in 1 .. MaxTodos }
Doing(l) == { i \in DOMAIN l : l[i].status = "doing" }
Several(l) == Cardinality(Doing(l)) > 1

TodoInit == todos = <<>> /\ written = <<>>

(* The enforcement of update_todo and of _apply_status_updates: a todo     *)
(* that becomes "doing" sends the others that are back to "todo".          *)
SetStatus(l, i, s) ==
    [j \in DOMAIN l |->
        IF j = i THEN [l[j] EXCEPT !.status = s]
        ELSE IF s = "doing" /\ l[j].status = "doing" THEN [l[j] EXCEPT !.status = "todo"]
        ELSE l[j]]

(* _apply_status_updates walks the list; a status that differs when its    *)
(* turn comes is set, so that of several "doing" the last set remains.     *)
ApplyOne(l, new, i) ==
    IF new[i].status \in {"none", l[i].status} THEN l ELSE SetStatus(l, i, new[i].status)
Applied(l, new) ==
    LET walk[i \in 0 .. Len(new)] == IF i = 0 THEN l ELSE ApplyOne(walk[i - 1], new, i)
    IN  walk[Len(new)]

(* Mutant: a list of the same length is taken for the same list.           *)
SameNumber(new, marked) == todos # <<>> /\ ~marked /\ Len(new) = Len(todos)

(* Titles are stored without their markup: a list written with markup      *)
(* never has the titles of the stored one.                                 *)
SameTitles(new, marked) ==
    /\ todos # <<>> /\ ~marked /\ Len(new) = Len(todos)
    /\ \A i \in DOMAIN new : new[i].title = todos[i].title
Titled(new) == Keeping(new, { m \in Items : m.title # Blank })
Created(new) ==
    [i \in DOMAIN Titled(new) |->
        LET m == Titled(new)[i]
        IN  IF m.status = "none" THEN [m EXCEPT !.status = "todo"] ELSE m]
WriteTodos(new, marked) ==
    /\ todos' = IF SameTitles(new, marked) THEN Applied(todos, new) ELSE Created(new)
    /\ written' = new

(* _find_todo: an exact identifier; a number, tried from zero first and    *)
(* then from one; a number after a colon, from zero; a title finds its     *)
(* first todo; other words may be part of any title.                       *)
Ids == DOMAIN todos
References ==
    [by : {"id", "number", "colon"}, n : 0 .. MaxTodos] \cup [by : {"title"}, title : Titles]
        \cup {[by |-> "words"]}
Found(ref) ==
    CASE ref.by = "id" -> {ref.n} \cap Ids
      [] ref.by = "number" -> IF ref.n + 1 \in Ids THEN {ref.n + 1} ELSE {ref.n} \cap Ids
      [] ref.by = "colon" -> {ref.n + 1} \cap Ids
      [] ref.by = "title" ->
            { i \in Ids : /\ todos[i].title = ref.title
                          /\ \A j \in 1 .. i - 1 : todos[j].title # ref.title }
      [] OTHER -> Ids

(* update_todo sets the title first: with an invalid status the call fails *)
(* and the title stays changed.                                            *)
Retitled(l, i, t) == IF t = Blank THEN l ELSE [l EXCEPT ![i].title = t]
UpdateTodo(ref, title, to) ==
    /\ \E i \in Found(ref) :
          todos' = LET l == Retitled(todos, i, title)
                   IN  IF to \in Statuses THEN SetStatus(l, i, to) ELSE l
    /\ written' = <<>>
CompleteTodo(ref) ==
    /\ \E i \in Found(ref) : todos' = [todos EXCEPT ![i].status = "done"]
    /\ written' = <<>>
ClearTodos == todos' = <<>> /\ written' = <<>>

TodoNext ==
    \/ \E new \in Writes, marked \in BOOLEAN : WriteTodos(new, marked)
    \/ \E ref \in References :
          \/ CompleteTodo(ref)
          \/ \E t \in Titles \cup {Blank}, s \in Statuses \cup {"invalid"} : UpdateTodo(ref, t, s)
    \/ ClearTodos
TodoSpec == TodoInit /\ [][TodoNext]_todoVars
-----------------------------------------------------------------------------
TodoTypeOK ==
    /\ todos \in Seq([title : Titles, status : Statuses])
    /\ written \in Seq(Items)

(* A list written with at most one item in progress is what is stored      *)
(* afterwards, whichever way write_todos took (new todos, or new statuses  *)
(* for the old ones, where setting one can change another).                *)
WriteIsExact ==
    ~Several(written) =>
        \A i \in DOMAIN Titled(written) :
            Titled(written)[i].status # "none" => todos[i] = Titled(written)[i]
=============================================================================
