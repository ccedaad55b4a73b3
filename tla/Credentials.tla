---------------------------- MODULE Credentials -----------------------------
(***************************************************************************)
(* Signing up at one address, and the two links mailed to it: the one that   *)
(* confirms it and the one that resets a forgotten password.  A link is a    *)
(* token with a lifetime; a reset link is denied-listed in Redis once used,  *)
(* and a key in Redis spaces the mails.                                      *)
(***************************************************************************)
EXTENDS Naturals

CONSTANTS Requests,   \* requests in flight
          Links,      \* reset links that may be alive at once (a bound)
          Cooldown,   \* RESEND_COOLDOWN_S and RESET_COOLDOWN_S, in ticks
          Life,       \* PASSWORD_RESET_TTL
          Faults      \* what may go wrong: "redis", "crash"

VARIABLES
    account,   \* users.status of the address
    cooldown,  \* the cooldown keys: time to live of each, 0 when there is none
    link,      \* the reset links: life left, time to live of the denylist entry
    request,   \* the requests
    sent,      \* of each kind, the mail of the last while: its age and sender (history)
    crowded,   \* senders of mails that another followed too soon (history)
    uses,      \* passwords set through each link (history)
    excused    \* links presented twice at once or not denied-listed (history)

mailing == <<account, cooldown, sent, crowded>>
using   == <<uses, excused>>
vars == <<mailing, link, request, using>>

Kinds == {"confirm", "reset"}
Mail(by) == [age |-> 0, by |-> by]
NoMail == [age |-> Cooldown, by |-> "nobody"]
NoLink == [life |-> 0, denied |-> 0]
Idle == [pc |-> "idle", kind |-> "none", link |-> "none"]

Init ==
    /\ account = "none"
    /\ cooldown = [k \in Kinds |-> 0]
    /\ sent = [k \in Kinds |-> NoMail] /\ crowded = {}
    /\ link = [l \in Links |-> NoLink]
    /\ uses = [l \in Links |-> 0] /\ excused = {}
    /\ request = [r \in Requests |-> Idle]

At(r, pc) == request[r].pc = pc
Leave(r) == request' = [request EXCEPT ![r] = Idle]

-----------------------------------------------------------------------------
(* Signing up and confirming.                                                *)

BeginRegister(r) ==
    /\ At(r, "idle") /\ account = "none"
    /\ request' = [request EXCEPT ![r] = [Idle EXCEPT !.pc = "inserting"]]
    /\ UNCHANGED <<mailing, link, using>>

(* The unique email has the last word (409).  The mail to a new account goes *)
(* out whatever key there is, and sets none.                                 *)
CommitRegister(r) ==
    /\ At(r, "inserting")
    /\ IF account = "none"
       THEN account' = "pending_email" /\ sent' = [sent EXCEPT !["confirm"] = Mail("register")]
       ELSE UNCHANGED <<account, sent>>
    /\ Leave(r)
    /\ UNCHANGED <<cooldown, crowded, link, using>>

VerifyEmail ==
    /\ account = "pending_email"
    /\ account' = "active"
    /\ UNCHANGED <<cooldown, sent, crowded, link, request, using>>

-----------------------------------------------------------------------------
(* resend_verification and forgot_password: an address there is something to *)
(* send to, then SET NX EX.                                                  *)

AskForMail(r, kind) ==
    /\ At(r, "idle")
    /\ account = "pending_email" \/ (kind = "reset" /\ account = "active")
    /\ request' = [request EXCEPT ![r] = [Idle EXCEPT !.pc = "asking", !.kind = kind]]
    /\ UNCHANGED <<mailing, link, using>>

InUse(l) == link[l].life > 0 \/ \E r \in Requests : request[r].link = l

(* create_password_reset_token: a link that has died makes room for a new.   *)
Mint(kind) ==
    IF kind = "confirm" THEN UNCHANGED <<link, using>>
    ELSE \E l \in Links :
           /\ ~InUse(l)
           /\ link' = [link EXCEPT ![l] = [life |-> Life, denied |-> 0]]
           /\ uses' = [uses EXCEPT ![l] = 0]
           /\ excused' = excused \ {l}

TooSoon(k) == IF sent[k].age < Cooldown THEN {sent[k].by} ELSE {}

(* (Variants with a fault, here and below, are never part of Next: they show *)
(* which mistake each property would catch.)                                 *)
GrantWithoutNx(r) ==
    LET k == request[r].kind IN
    /\ At(r, "asking")
    /\ cooldown' = [cooldown EXCEPT ![k] = Cooldown]
    /\ Mint(k)
    /\ sent' = [sent EXCEPT ![k] = Mail("request")]
    /\ crowded' = crowded \cup TooSoon(k)
    /\ Leave(r)
    /\ UNCHANGED account

Grant(r) ==
    LET k == request[r].kind IN
    /\ At(r, "asking") /\ cooldown[k] = 0
    /\ cooldown' = [cooldown EXCEPT ![k] = Cooldown]
    /\ Mint(k)
    /\ sent' = [sent EXCEPT ![k] = Mail("request")]
    /\ crowded' = crowded \cup TooSoon(k)
    /\ Leave(r)
    /\ UNCHANGED account

(* An error of Redis lets the mail through, and leaves no key; such a mail   *)
(* is not among those that are spaced.                                       *)
GrantBlind(r) ==
    LET k == request[r].kind IN
    /\ At(r, "asking") /\ "redis" \in Faults
    /\ Mint(k)
    /\ Leave(r)
    /\ UNCHANGED mailing

Suppress(r) ==
    /\ At(r, "asking") /\ cooldown[request[r].kind] > 0
    /\ Leave(r)
    /\ UNCHANGED <<mailing, link, using>>

-----------------------------------------------------------------------------
(* reset_password: the token is checked, the password committed, and then    *)
(* the token is denied-listed.                                               *)

Presented(l) == \E r \in Requests : request[r].link = l

BeginReset(r, l) ==
    /\ At(r, "idle") /\ link[l].life > 0
    /\ link[l].denied = 0 \/ "redis" \in Faults
    /\ request' = [request EXCEPT ![r] = [Idle EXCEPT !.pc = "checked", !.link = l]]
    /\ excused' = IF Presented(l) \/ link[l].denied > 0 THEN excused \cup {l} ELSE excused
    /\ UNCHANGED <<mailing, link, uses>>

CommitReset(r) ==
    LET l == request[r].link IN
    /\ At(r, "checked")
    /\ uses' = [uses EXCEPT ![l] = IF @ = 2 THEN 2 ELSE @ + 1]
    /\ request' = [request EXCEPT ![r].pc = "committed"]
    /\ UNCHANGED <<mailing, link, excused>>

DenyForCooldown(r) ==
    LET l == request[r].link IN
    /\ At(r, "committed")
    /\ link' = [link EXCEPT ![l].denied = Cooldown]
    /\ Leave(r)
    /\ UNCHANGED <<mailing, using>>

(* revoke: for as long as the token has to live, at least a second; an error *)
(* of Redis is swallowed.                                                    *)
Deny(r) ==
    LET l == request[r].link IN
    /\ At(r, "committed")
    /\ \/ /\ link' = [link EXCEPT ![l].denied = IF link[l].life > 0 THEN link[l].life ELSE 1]
          /\ UNCHANGED excused
       \/ /\ "redis" \in Faults
          /\ excused' = excused \cup {l}
          /\ UNCHANGED link
    /\ Leave(r)
    /\ UNCHANGED <<mailing, uses>>

Dies(r) ==
    /\ ~At(r, "idle") /\ "crash" \in Faults
    /\ excused' = IF At(r, "committed") THEN excused \cup {request[r].link} ELSE excused
    /\ Leave(r)
    /\ UNCHANGED <<mailing, link, uses>>

-----------------------------------------------------------------------------
Less(n) == IF n > 0 THEN n - 1 ELSE 0

Aged(mail) == IF mail.age + 1 < Cooldown THEN [mail EXCEPT !.age = @ + 1] ELSE NoMail

Tick ==
    /\ cooldown' = [k \in Kinds |-> Less(cooldown[k])]
    /\ sent' = [k \in Kinds |-> Aged(sent[k])]
    /\ link' = [l \in Links |-> [life |-> Less(link[l].life), denied |-> Less(link[l].denied)]]
    /\ UNCHANGED <<account, crowded, request, using>>

Step(r) == \/ BeginRegister(r) \/ CommitRegister(r)
           \/ \E k \in Kinds : AskForMail(r, k)
           \/ Grant(r) \/ GrantBlind(r) \/ Suppress(r)
           \/ \E l \in Links : BeginReset(r, l)
           \/ CommitReset(r) \/ Deny(r) \/ Dies(r)

Next == Tick \/ VerifyEmail \/ \E r \in Requests : Step(r)

Spec == Init /\ [][Next]_vars

-----------------------------------------------------------------------------
(* Properties.                                                               *)

Senders == {"register", "request"}

(* Every variable has its type; a request that resets a password has a link. *)
TypeOK ==
    /\ account \in {"none", "pending_email", "active"}
    /\ cooldown \in [Kinds -> 0..Cooldown]
    /\ sent \in [Kinds -> [age : 0..Cooldown, by : {"nobody"} \cup Senders]]
    /\ crowded \subseteq Senders
    /\ link \in [Links -> [life : 0..Life, denied : 0..Life]]
    /\ uses \in [Links -> 0..2] /\ excused \subseteq Links
    /\ request \in [Requests -> [pc : {"idle", "inserting", "asking", "checked", "committed"},
                                 kind : Kinds \cup {"none"}, link : Links \cup {"none"}]]
    /\ \A r \in Requests : request[r].pc \in {"checked", "committed"} => request[r].link \in Links

(* "Single-use" links, kept so by a key in Redis that must live exactly long *)
(* enough: a link sets a second password only if two requests presented it   *)
(* at once, Redis did not take or did not answer for the denylist entry, or  *)
(* the process died before writing it.                                       *)
LinksAreSingleUse == \A l \in Links : uses[l] = 2 => l \in excused

(* "One confirmation mail per address per two minutes", "one reset link per  *)
(* address per two minutes": of the mails that went out while Redis answered *)
(* only the one of the registration itself, which sets no key, is followed   *)
(* by another before the cooldown is over.                                   *)
MailsAreSpaced == crowded \subseteq {"register"}
=============================================================================
