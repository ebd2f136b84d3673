------------------------------ MODULE Listing ------------------------------
(***************************************************************************)
(* A namespace of fixed-width reverse ordinals, its bounded list pages and *)
(* the two readings of them: the newest coordinate (a page of one key),    *)
(* which is all that the stores ask for, and a scan page by page, which is *)
(* what list_page promises with its continuation.  Coordinates come and go *)
(* while a listing runs.                                                   *)
(*                                                                         *)
(* The backend answers a listing in pages of its own, each a snapshot of   *)
(* the moment.  It may fail, swap the first two entries, or replace the    *)
(* first one by a name that is not a key.                                  *)
(***************************************************************************)
EXTENDS Integers, Sequences, SequencesExt

CONSTANTS
    Base,         \* the digits of a spelling are 0 .. Base - 1
    Width,        \* REVERSE_ORDINAL_DIGITS
    Top,          \* u64::MAX
    Strays,       \* names in the namespace that this system does not write
    KeysMax,      \* the page bounds callers ask for
    BackendMax,   \* entries in one answer of the backend
    Listers,
    ChangesMax    \* bound of the model on inserts and deletes

VARIABLES
    names,        \* the names in the namespace
    changes,      \* inserts and deletes so far
    list          \* what each lister is doing

vars == <<names, changes, list>>

Coordinates == 1 .. Top

-----------------------------------------------------------------------------
(* Spelling. *)

\* What is left of a number without its last digits.
Shifted(n, places) ==
    LET left[i \in 0 .. places] == IF i = 0 THEN n ELSE left[i - 1] \div Base
    IN  left[places]

Digits(n) == [i \in 1 .. Width |-> Shifted(n, Width - i) % Base]

Value(digits) ==
    LET sum[i \in 0 .. Len(digits)] == IF i = 0 THEN 0 ELSE sum[i - 1] * Base + digits[i]
    IN  sum[Len(digits)]

\* ReverseOrdinal.
Spell(n) == Digits(Top - n)

\* parse_key: the width, the digits, the range of a u64.  0, which no key may
\* spell, stands for every refusal.
Parse(name) == IF Len(name) = Width /\ Value(name) <= Top THEN Top - Value(name) ELSE 0

\* Ascending order of names.
Before(a, b) ==
    \E i \in 1 .. Len(b) :
        /\ \A j \in 1 .. i - 1 : j <= Len(a) /\ a[j] = b[j]
        /\ i > Len(a) \/ a[i] < b[i]

Ascends(s) == \A i, j \in 1 .. Len(s) : i < j => Before(s[i], s[j])

\* No key is empty; where a key is optional, the empty name, which comes before
\* every key, stands for its absence.
NoName == <<>>
Keys == Seq(0 .. Base - 1) \ {NoName}

\* A name that ObjectKey::try_from refuses, as parse_listed_key finds it.
Uncanonical == <<Base>>
Canonical(name) == \A i \in 1 .. Len(name) : name[i] \in 0 .. Base - 1

\* The width is enough for every coordinate.
ASSUME ListingAssumption ==
    /\ {Base, Width, Top, BackendMax} \subseteq Nat \ {0}
    /\ KeysMax \subseteq Nat \ {0} /\ ChangesMax \in Nat
    /\ Base > 1 /\ Shifted(Top, Width) = 0
    /\ \A stray \in Strays : stray \in Keys

-----------------------------------------------------------------------------
(* The namespace. *)

\* steady: what has been in the namespace since the listing began.
Create(name) ==
    /\ changes < ChangesMax /\ name \notin names
    /\ names' = names \cup {name} /\ changes' = changes + 1
    /\ UNCHANGED list

Collect(name) ==
    /\ changes < ChangesMax /\ name \in names
    /\ names' = names \ {name} /\ changes' = changes + 1
    /\ list' = [l \in Listers |-> [list[l] EXCEPT !.steady = @ \ {name}]]

-----------------------------------------------------------------------------
(* list_page. *)

Fresh == [at |-> "idle", op |-> "none", keys_max |-> 0, start |-> NoName, page |-> <<>>,
          stream |-> <<>>, position |-> NoName, ended |-> FALSE, faulted |-> FALSE,
          steady |-> {}, all |-> <<>>, newest |-> 0, result |-> "none"]

\* newest_generation and newest_surviving_batch ask for one key.
Begin(l, op, keys_max) ==
    /\ list[l].at = "idle" /\ list[l].result = "none"
    /\ op = "newest" => keys_max = 1
    /\ list' = [list EXCEPT ![l] = [Fresh EXCEPT !.at = "listing", !.op = op,
                                        !.keys_max = keys_max, !.steady = names]]
    /\ UNCHANGED <<names, changes>>

Ends(l, result) == list' = [list EXCEPT ![l].at = "idle", ![l].result = result]

\* The first answer to a listing may be disordered.
Swapped(entries) == [entries EXCEPT ![1] = entries[2], ![2] = entries[1]]
Garbled(entries) == [entries EXCEPT ![1] = Uncanonical]

\* The backend goes on behind its last answer, or begins behind the start.
Resume(x) == IF x.position = NoName THEN x.start ELSE x.position

\* An answer holds the first of the names that follow, and is empty only when
\* there are none.
Answers(rest) ==
    {entries \in UNION {[1 .. n -> rest] : n \in 0 .. BackendMax} :
        /\ Ascends(entries)
        /\ \A name \in rest \ Range(entries) :
               entries # <<>> /\ Before(Last(entries), name)}

Comes(x, entries, stream) ==
    [x EXCEPT !.stream = stream, !.ended = entries = <<>>,
              !.position = IF entries = <<>> THEN @ ELSE Last(entries),
              !.faulted = @ \/ stream # entries]

\* The backend is asked for entries once those that came are used up.
Fetch(l) ==
    LET rest == {name \in names : Before(Resume(list[l]), name)}
        first == list[l].position = NoName
        comes(entries, stream) ==
            list' = [list EXCEPT ![l] = Comes(list[l], entries, stream)]
    IN  /\ list[l].at = "listing" /\ list[l].stream = <<>> /\ ~list[l].ended
        /\ \/ \E entries \in Answers(rest) :
                 \/ comes(entries, entries)
                 \/ first /\ Len(entries) >= 2 /\ comes(entries, Swapped(entries))
                 \/ first /\ Len(entries) >= 1 /\ comes(entries, Garbled(entries))
           \/ Ends(l, "Retryable")
        /\ UNCHANGED <<names, changes>>

\* The last key of the page, or the exclusive start.
Previous(x) == IF x.page = <<>> THEN x.start ELSE Last(x.page)

\* Variant: a full page is cut off before the next entry is looked at.
OutOfOrderUnlooked(l, listed) ==
    Len(list[l].page) < list[l].keys_max /\ ~Before(Previous(list[l]), listed)

\* The entry must follow the one before it.
OutOfOrder(l, listed) == ~Before(Previous(list[l]), listed)

Full(l) == Len(list[l].page) = list[l].keys_max

\* Variant: the next page starts after the entry that did not fit.
ContinuationSkips(l) == Head(list[l].stream)
Continuation(l) == Last(list[l].page)

\* newest_generation, newest_surviving_batch: the first key of the page.
NewestRead(l) ==
    LET page == list[l].page
        coordinate == IF page = <<>> THEN 0 ELSE Parse(Head(page))
    IN  list' = [list EXCEPT ![l].at = "idle", ![l].newest = coordinate,
                             ![l].result = IF page = <<>> THEN "Empty"
                                           ELSE IF coordinate = 0 THEN "Contradiction"
                                           ELSE "Newest"]

\* A caller that goes on from the continuation until there is none.  The adapter
\* promises this and its contract test does it; nothing else in the repository
\* asks for a second page.
PageScanned(l, truncated) ==
    list' = IF truncated
            THEN [list EXCEPT ![l].all = @ \o list[l].page, ![l].start = Continuation(l),
                              ![l].page = <<>>, ![l].stream = <<>>,
                              ![l].position = NoName, ![l].ended = FALSE]
            ELSE [list EXCEPT ![l].at = "idle", ![l].all = @ \o list[l].page,
                              ![l].result = "Scanned"]

\* A page is returned to its caller.
PageDone(l, truncated) ==
    IF list[l].op = "newest" THEN NewestRead(l) ELSE PageScanned(l, truncated)

\* One turn of the loop.
Consume(l) ==
    LET listed == Head(list[l].stream)
    IN  /\ list[l].at = "listing" /\ list[l].stream # <<>>
        /\ CASE ~Canonical(listed)      -> Ends(l, "Contradiction")
             [] Canonical(listed) /\ OutOfOrder(l, listed) -> Ends(l, "Contradiction")
             [] OTHER ->
                  IF Full(l)
                  THEN PageDone(l, TRUE)
                  ELSE list' = [list EXCEPT ![l].page = Append(@, listed),
                                            ![l].stream = Tail(@)]
        /\ UNCHANGED <<names, changes>>

EndOfStream(l) ==
    /\ list[l].at = "listing" /\ list[l].ended
    /\ PageDone(l, FALSE)
    /\ UNCHANGED <<names, changes>>

-----------------------------------------------------------------------------

Init == names = {} /\ changes = 0 /\ list = [l \in Listers |-> Fresh]

Next ==
    \/ \E n \in Coordinates : Create(Spell(n)) \/ Collect(Spell(n))
    \/ \E stray \in Strays : Create(stray)
    \/ \E l \in Listers :
        \/ \E op \in {"newest", "scan"}, keys_max \in KeysMax : Begin(l, op, keys_max)
        \/ Fetch(l) \/ Consume(l) \/ EndOfStream(l)

Spec == Init /\ [][Next]_vars

-----------------------------------------------------------------------------
(* Properties. *)

\* The coordinates in a set of names.
Written(set) == {n \in Coordinates : Spell(n) \in set}

\* The coordinate a page of one key leads to is at least every coordinate that
\* was there when the listing began and has stayed, whatever else was created
\* or collected meanwhile and even if the backend swapped the entries; the
\* namespace is called empty only if there is no such coordinate.
NewestIsNewest ==
    \A l \in Listers :
        /\ list[l].result = "Newest" =>
               \A n \in Written(list[l].steady) : n <= list[l].newest
        /\ list[l].result = "Empty" => Written(list[l].steady) = {}

\* A scan that runs to its end has every key that stayed, each once and in
\* order, across pages and while keys come and go.  A contradiction is never the
\* work of concurrent creates and deletes: the backend broke its order, or
\* somebody else has written to the namespace.
ScanIsComplete ==
    \A l \in Listers :
        /\ list[l].result = "Scanned" =>
            /\ list[l].steady \subseteq Range(list[l].all)
            /\ \A i, j \in 1 .. Len(list[l].all) :
                   i < j => Before(list[l].all[i], list[l].all[j])
        /\ list[l].result = "Contradiction" => list[l].faulted \/ names \cap Strays # {}

=============================================================================
