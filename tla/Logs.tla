-------------------------------- MODULE Logs ---------------------------------
(***************************************************************************)
(* The logs page (web/app/(main)/logs/page.tsx): the requests that were    *)
(* answered, filtered by the server and then by the page, the lines of the *)
(* system, and the switch that lets both follow by themselves.             *)
(***************************************************************************)
EXTENDS Shell

CONSTANTS
    Limits,      \* the numbers of rows there is a choice of; the page begins with 200
    Instants,    \* what a field for a time may hold
    Needles      \* what is typed to look for

AsText(v) == IF v = None THEN "" ELSE ToString(v)
Backwards(from, to) == from # None /\ to # None /\ from >= to

(* What the server is asked for.  A range that ends before it begins is    *)
(* not sent; an address that is typed, only when the typing has paused.    *)
Query(p) ==
    LET bad == Backwards(p.typed.from, p.typed.to)
    IN  [limit |-> p.limit, from |-> IF bad THEN None ELSE p.typed.from,
         to |-> IF bad THEN None ELSE p.typed.to, ip |-> p.settled.ip, ua |-> p.settled.ua]

Conditions(q) == {f \in {"from", "to", "ip", "ua"} : q[f] # None}
HasServerFilter(p) == Conditions(Query(p)) # {}

LogsKey(q) == "logs:requests:" \o AsText(q.limit) \o ":" \o AsText(q.from) \o ":" \o AsText(q.to)
              \o ":" \o AsText(q.ip) \o ":" \o AsText(q.ua)

NoInput == [from |-> None, to |-> None, ip |-> None, ua |-> None]

(* What the list in view, or the filter in view, is fetched anew for; each *)
(* list is the hook of its name.                                           *)
Refetch(w) == Refresh(w, w.page.list)
Requery(w, young) == Rekey(w, "requests", LogsKey(Query(w.page)), young)

LogsMount(w, young) ==
    LET bare == [name |-> "logs", visit |-> w.page.visit, hooks |-> <<>>, list |-> "requests",
                 live |-> TRUE, limit |-> 200, typed |-> NoInput,
                 settled |-> [ip |-> None, ua |-> None], model |-> None, status |-> "all",
                 query |-> None, detail |-> None,
                 errors |-> [requests |-> FALSE, system |-> FALSE]]
        at == [w EXCEPT !.page = bare]
    IN  Refetch(UseCached(UseCached(at, "requests", LogsKey(Query(bare)), young),
                          "system", "logs:system", young))

(* A list that follows does not while the server filters it. *)
Follows(p) == p.live /\ ~(p.list = "requests" /\ HasServerFilter(p))
LogsBeat(w) == IF Follows(w.page) THEN Refetch(w) ELSE w

LogsLoaded(c, w) == IF Mounted(c) /\ ~Ok(c) THEN [w EXCEPT !.page.errors[c.arg[1]] = TRUE] ELSE w
-----------------------------------------------------------------------------
(* What the page leaves of what the server sent; the search looks into the *)
(* model, the account and the error, which is what a row says.             *)
Rows(p, h) == IF p.hooks[h].data = None THEN {} ELSE p.hooks[h].data.val.rows

FilteredLogs(p) == {l \in Rows(p, "requests") :
    /\ p.model \in {None, l.model}
    /\ p.status = "ok" => l.ok
    /\ p.status = "error" => ~l.ok
    /\ p.query \in {None} \cup l.says}

(* The failure stays until somebody asks again, and is seen where there is *)
(* nothing else to see.                                                    *)
LogsErrorShown(p) == LET h == p.list
                     IN  p.errors[h] /\ ~p.hooks[h].loading /\ Rows(p, h) = {}

RetryLogs ==
    /\ LogsErrorShown(page)
    /\ Become(Refetch([Clicked EXCEPT !.page.errors[page.list] = FALSE]))

ChooseList == \E h \in {"requests", "system"} \ {page.list} :
    Become(Refetch([Clicked EXCEPT !.page.list = h]))

(* Another limit is another key, and the list in view is fetched anyhow. *)
ChooseLimit == \E n \in Limits \ {page.limit}, young \in BOOLEAN :
    Become(Refetch(Requery([Clicked EXCEPT !.page.limit = n], young)))

TypeFilter == \E f \in DOMAIN NoInput, young \in BOOLEAN :
    \E v \in {None} \cup (IF f \in {"from", "to"} THEN Instants ELSE Needles) :
        /\ v # page.typed[f]
        /\ Become(Requery([Clicked EXCEPT !.page.typed[f] = v], young))

ClearFilters == \E young \in BOOLEAN :
    /\ page.typed # NoInput
    /\ Become(Requery([Clicked EXCEPT !.page.typed = NoInput], young))

(* Nobody has typed for a while. *)
Settle == \E f \in {"ip", "ua"}, young \in BOOLEAN :
    /\ page.name = "logs" /\ page.settled[f] # page.typed[f]
    /\ Become(Requery([World EXCEPT !.page.settled[f] = page.typed[f]], young))
    /\ UNCHANGED server

LogsModal == page.detail # None

LogsClick ==
    \/ ~LogsModal /\ ChooseList
    \/ ~LogsModal /\ Become([Clicked EXCEPT !.page.live = ~@])
    \/ ~LogsModal /\ (ChooseLimit \/ RetryLogs)
    \/ /\ ~LogsModal /\ page.list = "requests"
       /\ \/ TypeFilter \/ ClearFilters
          \/ \E m \in {None} \cup {l.model : l \in Rows(page, "requests")} :
                m # page.model /\ Become([Clicked EXCEPT !.page.model = m])
          \/ \E s \in {"all", "ok", "error"} \ {page.status} : Become([Clicked EXCEPT !.page.status = s])
          \/ \E q \in {None} \cup Needles : q # page.query /\ Become([Clicked EXCEPT !.page.query = q])
          \/ \E l \in FilteredLogs(page) : Become([Clicked EXCEPT !.page.detail = l])
    \/ LogsModal /\ Become([Clicked EXCEPT !.page.detail = None])

(* Rows that are drawn as being loaded have their request under way. *)
LogsLocks == \A h \in DOMAIN page.hooks :
    page.hooks[h].loading => \E c \in InFlight("load", <<h, page.hooks[h].key>>) : Mounted(c)
-----------------------------------------------------------------------------
(* With any condition the server looks into the archive, which may be off. *)
Queries == [limit : Limits, from : Instants \cup {None}, to : Instants \cup {None},
            ip : Needles \cup {None}, ua : Needles \cup {None}]
Asked == [k \in {LogsKey(q) : q \in Queries} |-> CHOOSE q \in Queries : LogsKey(q) = k]

LogsVal(k) ==
    IF k = "logs:system" THEN [rows |-> server.lines]
    ELSE LET q == Asked[k]
         IN  [rows |-> {l \in server.log :
                /\ Conditions(q) # {} => server.archived
                /\ q.from # None => l.time >= q.from
                /\ q.to # None => l.time <= q.to
                /\ q.ip \in {None, l.ip} /\ q.ua \in {None, l.ua}}]
=============================================================================
