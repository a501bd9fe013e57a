-------------------------------- MODULE Models -------------------------------
(***************************************************************************)
(* The models page (web/app/(main)/models/page.tsx): what a realm offers,  *)
(* what was measured of it, and which of it is shown.                      *)
(***************************************************************************)
EXTENDS Playground, SequencesExt, FiniteSetsExt

CONSTANT CardOf    \* of a model: its realm (or "bare"), bare name, family, context, images, price

Large == 131072

(* A family is told by the beginning of the name, and in one realm only.   *)
Families == {"glm", "hunyuan", "deepseek", "kimi", "minimax"}
SeriesOf(m) == CASE CardOf[m].realm # "cn" -> "global"
                 [] CardOf[m].family \in Families -> CardOf[m].family
                 [] OTHER -> "other"

ModelsKey(realm) == "models:" \o realm

ModelsMount(w, young) ==
    LET at == [w EXCEPT !.page =
            [name |-> "models", visit |-> w.page.visit, hooks |-> <<>>, refreshing |-> FALSE,
             error |-> FALSE, q |-> None, series |-> "all", cap |-> "all", sort |-> "default"]]
    IN  UseCached(UseCached(at, "models", ModelsKey(w.tab.realm), young),
                  "probes", "models:probes", young)

(* Another realm: its own list, and the filters of the old one are gone. *)
ModelsRealm(w, young) ==
    [Rekey(w, "models", ModelsKey(w.tab.realm), young) EXCEPT
        !.page.q = None, !.page.series = "all", !.page.cap = "all"]

ModelsVal(k) ==
    IF k = "models:probes" THEN [probes |-> server.probes]
    ELSE LET list == server.models[CHOOSE r \in Realms : ModelsKey(r) = k]
         IN  [list |-> list, models |-> ToSet(list)]
-----------------------------------------------------------------------------
(***************************************************************************)
(* Fetch everything again: the list, and after it, whatever came of it,    *)
(* the measures.  A request that is under way already is not waited for.   *)
(***************************************************************************)
Probe(c, w, k) ==
    LET sent == Reload(c, w, "probes", "models:probes", <<"probes", None>>)
    IN  IF Sends(c, w, "probes", "models:probes") THEN sent
        ELSE Shown(c, sent, [sent.page EXCEPT !.refreshing = FALSE])

ReloadModels ==
    LET at == [Clicked EXCEPT !.page.refreshing = TRUE]
        self == [visit |-> page.visit]
    IN  /\ ~page.refreshing
        /\ Become(IF Idle(at, "models") THEN RefreshThen(at, "models", <<"models", None>>)
                  ELSE Probe(self, at, "models:probes"))

ModelsThen(c, w) ==
    CASE c.then[1] = "models" -> Probe(c, w, c.arg[2])
      [] OTHER -> Shown(c, w, [w.page EXCEPT !.refreshing = FALSE, !.error = FALSE])
-----------------------------------------------------------------------------
(***************************************************************************)
(* What is shown: of the realm, with what was measured.  A measure is      *)
(* looked for under the name without its first three letters, which is the *)
(* bare name in one realm only, and then under the whole name.             *)
(***************************************************************************)
ProbeOf(m, probes) ==
    CASE CardOf[m].realm # "global" /\ CardOf[m].bare \in DOMAIN probes -> probes[CardOf[m].bare]
      [] m \in DOMAIN probes -> probes[m]
      [] OTHER -> None

ModelList == IF page.hooks["models"].data = None THEN <<>> ELSE page.hooks["models"].data.val.list
ModelsScoped == SelectSeq(ModelList, LAMBDA m : CardOf[m].realm \in {tab.realm, "bare"})

Fits(m, p) ==
    /\ p.series \in {"all", SeriesOf(m)}
    /\ p.cap = "reasoning" => Supported(m) # <<>>
    /\ p.cap = "large" => CardOf[m].context >= Large
    /\ p.cap = "vision" => CardOf[m].images
    /\ p.q \in {None, m, SeriesOf(m)}

(* The cheapest first, and what has no price last, each in its old order.  *)
Cheaper(list, i, j) ==
    LET a == CardOf[list[i]].price
        b == CardOf[list[j]].price
    IN  CASE a = None /\ b = None -> i < j
          [] a = None \/ b = None -> b = None
          [] OTHER -> a < b \/ (a = b /\ i < j)

ModelsShown(p) ==
    LET list == SelectSeq(ModelsScoped, LAMBDA m : Fits(m, p))
        order == SetToSortSeq(DOMAIN list, LAMBDA i, j : Cheaper(list, i, j))
    IN  IF p.sort = "credits" THEN [k \in DOMAIN order |-> list[order[k]]] ELSE list

Summary ==
    LET ms == ToSet(ModelsScoped)
    IN  [total |-> Len(ModelsScoped), series |-> {SeriesOf(m) : m \in ms},
         reasoning |-> Cardinality({m \in ms : Supported(m) # <<>>}),
         large |-> Cardinality({m \in ms : CardOf[m].context >= Large}),
         max |-> Max({CardOf[m].context : m \in ms} \cup {0}),
         probed |-> Cardinality({m \in ms :
             ProbeOf(m, HookVal(page, "probes", "probes")) # None})]

ModelsClick ==
    \/ ReloadModels
    \/ \E q \in {None} \cup ToSet(ModelsScoped) : q # page.q /\ Become([Clicked EXCEPT !.page.q = q])
    \/ \E s \in {"all"} \cup Summary.series : s # page.series /\ Become([Clicked EXCEPT !.page.series = s])
    \/ \E k \in {"all", "reasoning", "large", "vision"} :
          k # page.cap /\ Become([Clicked EXCEPT !.page.cap = k])
    \/ Become([Clicked EXCEPT !.page.sort = IF @ = "credits" THEN "default" ELSE "credits"])

(* The button turns while its requests are under way. *)
ModelsLocks == page.refreshing <=> Awaited("models") \/ Awaited("probes")
=============================================================================
