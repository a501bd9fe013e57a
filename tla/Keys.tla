-------------------------------- MODULE Keys ---------------------------------
(***************************************************************************)
(* The keys page of the panel (web/app/(main)/keys/page.tsx): the keys the *)
(* gateway gives out, the form that makes and changes them, and the one    *)
(* sight of a key that was made.                                           *)
(***************************************************************************)
EXTENDS Shell, SequencesExt, FiniteSetsExt

CONSTANT KeyIds    \* the keys there may be

(* What a number may be typed as, and what is sent for it: no less than 0. *)
Typed == {"0", "5", "-1", "abc"}
Clean(text) == IF text = "5" THEN 5 ELSE 0
(* A day is sent as its last second; what is not a date counts for nothing.*)
DateToUnixSec(day) == IF day \in {"past", "later"} THEN day ELSE None
(* The entries of a list are trimmed and taken once; the empty ones fall   *)
(* away.                                                                   *)
ToLines(entries) == {entries[i] : i \in DOMAIN entries} \ {""}

NewKeyForm(realm) ==
    [name |-> "", expiryMode |-> "never", expiryDate |-> "", number |-> "0", list |-> <<"">>,
     realm |-> realm]

FormOf(k) ==
    [name |-> k.name, expiryMode |-> IF k.ends = None THEN "never" ELSE "date",
     expiryDate |-> IF k.ends = None THEN "" ELSE k.ends,
     number |-> IF k.quota = 0 THEN "0" ELSE "5",
     list |-> SetToSeq(k.models), realm |-> k.realm]

(* What the form asks for, if it can be sent at all. *)
Sendable(f) == f.name # "" /\ (f.expiryMode = "date" => DateToUnixSec(f.expiryDate) # None)
Payload(f) ==
    [name |-> f.name, realm |-> f.realm, quota |-> Clean(f.number), models |-> ToLines(f.list),
     ends |-> IF f.expiryMode = "date" THEN DateToUnixSec(f.expiryDate) ELSE None]

(***************************************************************************)
(* The address a client is given.  What speaks OpenAI's way gets it with   *)
(* /v1 at its end, and what speaks Claude's way without, as it adds /v1    *)
(* by itself.  An address is the sequence of its parts.                    *)
(***************************************************************************)
Trimmed(address) == SelectSeq(address, LAMBDA part : part # "")
EndsV1(address) == address # <<>> /\ Last(address) = "v1"
OpenaiBase(address) == IF EndsV1(address) THEN address ELSE Append(address, "v1")
ClaudeBase(address) == IF EndsV1(address) THEN Front(address) ELSE address

ExportFormats == {"claude_settings", "claude_env", "codex_toml", "cc_switch", "openai_python",
                  "openai_node", "curl"}

BuildSnippet(format, key, address) ==
    [base |-> IF format \in {"claude_settings", "claude_env", "cc_switch"}
              THEN ClaudeBase(address) ELSE OpenaiBase(address),
     key |-> IF format = "codex_toml" THEN None ELSE key]

Snippet(p) == IF p.issued = None \/ Trimmed(p.address) = <<>> THEN None
              ELSE BuildSnippet(p.format, p.issued, Trimmed(p.address))
-----------------------------------------------------------------------------
KeysMount(w, young) ==
    LET bare == [name |-> "keys", visit |-> w.page.visit, hooks |-> <<>>, loadError |-> FALSE,
                 formOpen |-> FALSE, editing |-> None, form |-> NewKeyForm("cn"),
                 submitting |-> FALSE, issued |-> None, format |-> "claude_settings",
                 address |-> <<"origin">>, ipsFor |-> None, ips |-> None, ipsLoading |-> FALSE,
                 confirming |-> None, confirmed |-> {}]
    IN  UseCached([w EXCEPT !.page = bare], "keys", "keys", FALSE)

KeysBeat(w) == Refresh(w, "keys")
KeyRows(p) == IF p.hooks["keys"].data = None THEN <<>> ELSE p.hooks["keys"].data.val.keys

(* Not to get the keys is not to have none. *)
KeysErrorShown == page.loadError /\ ~page.hooks["keys"].loading /\ page.hooks["keys"].data = None

KeysLoaded(c, w) ==
    IF Mounted(c) /\ ~Ok(c) THEN [w EXCEPT !.page.loadError = TRUE] ELSE w

RetryKeys ==
    /\ KeysErrorShown
    /\ Become(Refresh([Clicked EXCEPT !.page.loadError = FALSE], "keys"))

(* A key over any of its quotas is refused, as one that has ended. *)
OverQuota(k) == k.quota > 0 /\ k.used >= k.quota
KeyBadge(k) == CASE ~k.on -> "disabled"
                 [] k.on /\ k.ends = "past" -> "expired"
                 [] k.on /\ k.ends # "past" /\ OverQuota(k) -> "overQuota"
                 [] OTHER -> "ok"
-----------------------------------------------------------------------------
(* The form, empty or of a key. *)
OpenCreate ==
    /\ IsAdmin
    /\ Become([Clicked EXCEPT !.page.formOpen = TRUE, !.page.editing = None,
                              !.page.form = NewKeyForm(tab.realm)])

OpenEdit(k) ==
    Become([Clicked EXCEPT !.page.formOpen = TRUE, !.page.editing = k,
                           !.page.form = FormOf(KeyRows(page)[k])])

MutSubmit ==
    /\ page.formOpen
    /\ \E name \in {"", "new"}, day \in {None, "", "later"}, number \in Typed :
          LET f == [page.form EXCEPT !.name = name, !.number = number,
                                     !.expiryMode = IF day = None THEN "never" ELSE "date",
                                     !.expiryDate = IF day = None THEN @ ELSE day]
              typed == [Clicked EXCEPT !.page.form = f]
          IN  Become(IF ~Sendable(f) THEN typed
                     ELSE Call([typed EXCEPT !.page.submitting = TRUE],
                               IF page.editing = None THEN "keyCreate" ELSE "keyUpdate",
                               <<page.editing, Payload(f)>>))

(* The form is filled in, and one submission is under way at a time.  What *)
(* cannot be sent is not.                                                  *)
Submit ==
    /\ page.formOpen /\ ~page.submitting
    /\ \E name \in {"", "new"}, day \in {None, "", "later"}, number \in Typed :
          LET f == [page.form EXCEPT !.name = name, !.number = number,
                                     !.expiryMode = IF day = None THEN "never" ELSE "date",
                                     !.expiryDate = IF day = None THEN @ ELSE day]
              typed == [Clicked EXCEPT !.page.form = f]
          IN  Become(IF ~Sendable(f) THEN typed
                     ELSE Call([typed EXCEPT !.page.submitting = TRUE],
                               IF page.editing = None THEN "keyCreate" ELSE "keyUpdate",
                               <<page.editing, Payload(f)>>))

(* A refresh that is already under way may show the keys as they were. *)
Submitted == \E c \in Answered("keyCreate") \cup Answered("keyUpdate") :
    LET w == After(c)
        free == Shown(c, w, [page EXCEPT
                    !.submitting = FALSE, !.formOpen = @ /\ ~Ok(c),
                    !.issued = IF Ok(c) /\ c.op = "keyCreate" THEN c.ans.val.plaintext ELSE @])
    IN  /\ Become(IF Ok(c) THEN Reload(c, free, "keys", "keys", None) ELSE free)
        /\ UNCHANGED server

(* The plaintext is there until it is put away. *)
IssuedClick ==
    /\ page.issued # None
    /\ \/ \E f \in ExportFormats \ {page.format} : Become([Clicked EXCEPT !.page.format = f])
       \/ \E a \in {<<>>, <<"origin", "v1", "">>} \ {page.address} :
             Become([Clicked EXCEPT !.page.address = a])
       \/ Become([Clicked EXCEPT !.page.issued = None])
-----------------------------------------------------------------------------
(* What a row offers: a switch, and what is asked about first. *)
Toggle(k) == Become(Call(Clicked, "keyToggle", <<k, ~KeyRows(page)[k].on>>))

Confirm(k, op) ==
    /\ <<k, op>> \notin page.confirmed
    /\ Become(Call([Clicked EXCEPT !.page.confirming = <<k, op>>, !.page.confirmed = @ \cup {<<k, op>>}],
                   op, <<k, None>>))

KeyChanged == \E c \in Answered("keyToggle") \cup Answered("keyRemove") \cup Answered("keyReset") :
    LET it == <<c.arg[1], c.op>>
        done == Shown(c, After(c), [page EXCEPT !.confirmed = @ \ {it},
                                                !.confirming = IF @ = it THEN None ELSE @])
    IN  /\ Become(IF Ok(c) THEN Reload(c, done, "keys", "keys", None) ELSE done)
        /\ UNCHANGED server

(* The addresses a key was used from: the answer goes to the dialog that   *)
(* is open by then.                                                        *)
OpenIps(k) ==
    Become(Call([Clicked EXCEPT !.page.ipsFor = k, !.page.ips = None, !.page.ipsLoading = TRUE],
                "keyIps", <<k, None>>))

IpsLand == \E c \in Answered("keyIps") :
    /\ Become(Shown(c, After(c),
              IF Ok(c) THEN [page EXCEPT !.ips = c.ans.val.ips, !.ipsLoading = FALSE]
              ELSE [page EXCEPT !.ipsFor = None, !.ipsLoading = FALSE]))
    /\ UNCHANGED server

KeysModal == page.formOpen \/ page.issued # None \/ page.ipsFor # None \/ page.confirming # None

KeysClick ==
    \/ /\ ~KeysModal
       /\ \/ OpenCreate \/ RetryKeys
          \/ /\ IsAdmin /\ ~KeysErrorShown
             /\ \E k \in DOMAIN KeyRows(page) :
                   \/ OpenEdit(k) \/ OpenIps(k) \/ Toggle(k)
                   \/ \E op \in {"keyRemove", "keyReset"} : Confirm(k, op)
    \/ Submit \/ IssuedClick
    \/ page.formOpen /\ Become([Clicked EXCEPT !.page.formOpen = FALSE])
    \/ page.ipsFor # None /\ Become([Clicked EXCEPT !.page.ipsFor = None])
    \/ page.confirming # None /\ Become([Clicked EXCEPT !.page.confirming = None])

KeysLand == Submitted \/ KeyChanged \/ IpsLand

(* The server's part, as far as the page can tell. *)
KeysServes(c) ==
    LET k == c.arg[1]
        with(key) == Does([server EXCEPT !.keys[k] = key])
        new(key) == [name |-> c.arg[2].name, realm |-> c.arg[2].realm, quota |-> c.arg[2].quota,
                     models |-> c.arg[2].models, ends |-> c.arg[2].ends, on |-> key.on,
                     used |-> key.used]
    IN  CASE c.op = "keyCreate" ->
               {Reply([Wrote(server) EXCEPT
                          !.keys = With(@, i, new([on |-> TRUE, used |-> 0]))],
                      "ok", [plaintext |-> i]) : i \in KeyIds \ DOMAIN server.keys} \cup Refuses
          [] c.op # "keyCreate" /\ k \notin DOMAIN server.keys -> Refuses
          [] c.op = "keyUpdate" -> with(new(server.keys[k]))
          [] c.op = "keyToggle" -> with([server.keys[k] EXCEPT !.on = c.arg[2]])
          [] c.op = "keyReset" -> with([server.keys[k] EXCEPT !.used = 0])
          [] c.op = "keyRemove" -> Does([server EXCEPT !.keys = Without(@, k)])
          [] c.op = "keyIps" -> Reads([ips |-> k])

(* The form is locked while what it sent is under way. *)
KeysLocks == page.submitting <=> Pending({"keyCreate", "keyUpdate"})

(***************************************************************************)
(* A key's plaintext is shown once: no other one takes its place before it *)
(* is put away, however often the form is sent (keys/page.tsx:332-382,     *)
(* 788-862).                                                               *)
(***************************************************************************)
IssuedStands ==
    [][page.name = "keys" /\ page'.visit = page.visit /\ page.issued # None
       => page'.issued \in {page.issued, None}]_vars
=============================================================================
