---------------------------- MODULE SiteBrowser ----------------------------
(***************************************************************************)
(* The Website pane of one session, platform/api/site.py: proxy sends what *)
(* the learner's browser asks for to board.com, keeps a record of it for   *)
(* the network panel, and afterwards lists what a browser would have had   *)
(* in its cache and fetches the favicon.  Requests run on threads of their *)
(* own, timers too; what they share is kept in the process by session, and *)
(* forgotten at the close.                                                 *)
(*                                                                         *)
(* A record's time is its number: both are taken when the answer's headers *)
(* arrive.  A request asks for a page, for the page's stylesheet, or, once *)
(* a page has been shown, for the favicon.                                 *)
(***************************************************************************)
EXTENDS Naturals, Sequences, FiniteSets

CONSTANTS
    Tabs,          \* the requests the browser has under way at once
    Favicon,       \* the request the favicon is fetched by
    KeptPerSession,
    MaxNumber,     \* how many records are numbered
    MaxRestarts    \* how often the process restarts

SiteAssumption ==
    /\ Favicon \notin Tabs /\ KeptPerSession \in Nat \ {0}
    /\ MaxNumber \in Nat /\ MaxRestarts \in Nat

VARIABLES
    ended,     \* the session: "open", "ended", "forgotten"
    tabs,      \* where each request is
    numbers,   \* the last number taken
    records,   \* the network panel's records, the oldest first
    egress,    \* the way out of the range has been found
    jar,       \* the site's cookies
    policy,    \* the last page's referrer policy
    favicons,  \* the host's favicon was asked for
    timers,    \* the pages whose cached parts are to be listed, 0 for the favicon
    cached,    \* the cache hits that were numbered and are not kept yet, with their page
    fetches,   \* how often a favicon was fetched while the session was open
    panel,     \* what the console listed: the highest number and all of them
    overtaken, \* numbers kept after a higher one was listed, before a restart too
    siteRestarts

memory == <<numbers, records, egress, jar, policy, favicons>>
siteVars == <<ended, tabs, memory, timers, cached, fetches, panel, overtaken, siteRestarts>>

Urls == {"page", "style", "favicon"}
PanelRecords == [id : 1..MaxNumber, url : Urls, cache : BOOLEAN, of : 0..MaxNumber]
Cookies == {"none", "session"}
Policies == {"default", "no-referrer"}
NoRequest == [phase |-> "idle", url |-> "page", id |-> 0]

SiteTypeOK ==
    /\ ended \in {"open", "ended", "forgotten"}
    /\ \A t \in Tabs \cup {Favicon} :
         /\ tabs[t].phase \in {"idle", "asked", "sent", "relayed"}
         /\ tabs[t].url \in Urls /\ tabs[t].id \in 0..MaxNumber
    /\ numbers \in 0..MaxNumber
    /\ records \in Seq(PanelRecords) /\ Len(records) <= KeptPerSession
    /\ egress \in BOOLEAN /\ jar \in Cookies /\ policy \in Policies /\ favicons \in BOOLEAN
    /\ timers \subseteq 0..MaxNumber
    /\ cached \subseteq [id : 1..MaxNumber, of : 1..MaxNumber]
    /\ panel.after \in 0..MaxNumber /\ panel.shown \subseteq 1..MaxNumber
    /\ overtaken \subseteq 1..MaxNumber
    /\ siteRestarts \in 0..MaxRestarts

Forgotten ==
    /\ records = <<>> /\ egress = FALSE /\ jar = "none" /\ policy = "default" /\ favicons = FALSE

SiteInit ==
    /\ ended = "open" /\ Forgotten
    /\ tabs = [t \in Tabs \cup {Favicon} |-> NoRequest]
    /\ numbers = 0 /\ timers = {} /\ cached = {} /\ fetches = 0
    /\ panel = [after |-> 0, shown |-> {}] /\ overtaken = {} /\ siteRestarts = 0

Ids(rows) == {rows[i].id : i \in DOMAIN rows}

\* The deque keeps the newest.  A record is overtaken when a higher number was
\* listed before it.
Keep(record) ==
    /\ records' = LET all == Append(records, record)
                  IN  SubSeq(all, Len(all) - (IF Len(all) > KeptPerSession
                                              THEN KeptPerSession ELSE Len(all)) + 1, Len(all))
    /\ overtaken' = IF \E id \in panel.shown : id > record.id
                    THEN overtaken \cup {record.id} ELSE overtaken

RequestFor(url) == [NoRequest EXCEPT !.phase = "asked", !.url = url]

-----------------------------------------------------------------------------
(* A request. *)

\* proxy, for an open session.
Proxy(t) ==
    /\ ended = "open" /\ tabs[t].phase = "idle" /\ numbers < MaxNumber
    /\ \E url \in {"page", "style"} : tabs' = [tabs EXCEPT ![t] = RequestFor(url)]
    /\ UNCHANGED <<ended, memory, timers, cached, fetches, panel, overtaken, siteRestarts>>

\* egress_of: looked up under the lock, found without it by as many as ask.
FindsEgress(t) ==
    /\ tabs[t].phase = "asked"
    /\ egress' = TRUE
    /\ tabs' = [tabs EXCEPT ![t].phase = "sent"]
    /\ UNCHANGED <<ended, numbers, records, jar, policy, favicons, timers, cached, fetches, panel,
                   overtaken, siteRestarts>>

\* No range, no line, no answer: 502, or no favicon.
NotAnswered(t) ==
    /\ \/ tabs[t].phase = "asked" /\ ~ egress
       \/ tabs[t].phase = "sent"
    /\ tabs' = [tabs EXCEPT ![t] = NoRequest]
    /\ UNCHANGED <<ended, memory, timers, cached, fetches, panel, overtaken, siteRestarts>>

\* The headers: a page's policy is learnt, cookies are kept or expire.
Answered(t) ==
    /\ tabs[t].phase = "sent" /\ numbers < MaxNumber
    /\ numbers' = numbers + 1
    /\ tabs' = [tabs EXCEPT ![t].phase = "relayed", ![t].id = numbers']
    /\ jar' \in Cookies
    /\ IF tabs[t].url = "page" THEN policy' \in Policies ELSE UNCHANGED policy
    /\ UNCHANGED <<ended, records, egress, favicons, timers, cached, fetches, panel, overtaken,
                   siteRestarts>>

\* The body ends, or breaks off, and the record is kept.  After a page its
\* cached parts are to be listed and, the first time, the favicon is fetched.
AfterDocument(id) ==
    /\ timers' = timers \cup {id} \cup (IF favicons THEN {} ELSE {0})
    /\ favicons' = TRUE

Relayed(t) ==
    /\ tabs[t].phase = "relayed"
    /\ tabs' = [tabs EXCEPT ![t] = NoRequest]
    /\ Keep([id |-> tabs[t].id, url |-> tabs[t].url, cache |-> FALSE, of |-> 0])
    /\ IF tabs[t].url = "page" THEN AfterDocument(tabs[t].id) ELSE UNCHANGED <<timers, favicons>>
    /\ UNCHANGED <<ended, numbers, egress, jar, policy, cached, fetches, panel, siteRestarts>>

FetchFavicon ==
    /\ 0 \in timers /\ tabs[Favicon].phase = "idle"
    /\ timers' = timers \ {0}
    /\ tabs' = [tabs EXCEPT ![Favicon] = [RequestFor("favicon") EXCEPT !.phase = "sent"]]
    /\ fetches' = IF ended = "open" THEN fetches + 1 ELSE fetches
    /\ UNCHANGED <<ended, memory, cached, panel, overtaken, siteRestarts>>

\* The page names its stylesheet: it is a cache hit if one was fetched before
\* the page and none is listed since.  It is numbered, and kept after that.
ListCached(page) ==
    LET seen == {i \in DOMAIN records : records[i].url = "style"}
        before == {i \in seen : records[i].id < page /\ ~ records[i].cache}
    IN  /\ page \in timers
        /\ timers' = timers \ {page}
        /\ IF before # {} /\ ~ (\E i \in seen : records[i].id >= page) /\ numbers < MaxNumber
           THEN /\ numbers' = numbers + 1
                /\ cached' = cached \cup {[id |-> numbers', of |-> page]}
           ELSE UNCHANGED <<numbers, cached>>
        /\ UNCHANGED <<ended, tabs, records, egress, jar, policy, favicons, fetches, panel, overtaken,
                       siteRestarts>>

KeepsCached(c) ==
    /\ c \in cached /\ cached' = cached \ {c}
    /\ Keep([id |-> c.id, url |-> "style", cache |-> TRUE, of |-> c.of])
    /\ UNCHANGED <<ended, tabs, numbers, egress, jar, policy, favicons, timers, fetches, panel,
                   siteRestarts>>

-----------------------------------------------------------------------------
(* The console, the close and the process. *)

\* (Mutant: the console goes on from the last number taken, not the last listed.)
SiteRequestsFromTheCounter ==
    LET newer == {id \in Ids(records) : id > panel.after}
    IN  /\ ended = "open" /\ newer # {}
        /\ panel' = [after |-> numbers, shown |-> panel.shown \cup newer]
        /\ UNCHANGED <<ended, tabs, memory, timers, cached, fetches, overtaken, siteRestarts>>

\* The console asks for what is newer than the highest number it has.
SiteRequests ==
    LET newer == {id \in Ids(records) : id > panel.after}
    IN  /\ ended = "open" /\ newer # {}
        /\ panel' = [after |-> CHOOSE id \in newer : \A other \in newer : other <= id,
                     shown |-> panel.shown \cup newer]
        /\ UNCHANGED <<ended, tabs, memory, timers, cached, fetches, overtaken, siteRestarts>>

SessionEnds ==
    /\ ended = "open" /\ ended' = "ended"
    /\ UNCHANGED <<tabs, memory, timers, cached, fetches, panel, overtaken, siteRestarts>>

Forget ==
    /\ ended = "ended" /\ ended' = "forgotten"
    /\ records' = <<>> /\ egress' = FALSE /\ jar' = "none" /\ policy' = "default" /\ favicons' = FALSE
    /\ UNCHANGED <<tabs, numbers, timers, cached, fetches, panel, overtaken, siteRestarts>>

\* The numbers begin again, while the console's page stays where it was.
SiteRestart ==
    /\ siteRestarts < MaxRestarts /\ siteRestarts' = siteRestarts + 1
    /\ ended' = IF ended = "ended" THEN "forgotten" ELSE ended
    /\ tabs' = [t \in Tabs \cup {Favicon} |-> NoRequest]
    /\ numbers' = 0 /\ records' = <<>> /\ egress' = FALSE /\ jar' = "none" /\ policy' = "default"
    /\ favicons' = FALSE /\ timers' = {} /\ cached' = {} /\ fetches' = 0
    /\ panel' = [panel EXCEPT !.shown = {}] /\ overtaken' = 1..panel.after

SiteNext ==
    \/ \E t \in Tabs : Proxy(t) \/ FindsEgress(t)
    \/ \E t \in Tabs \cup {Favicon} : NotAnswered(t) \/ Answered(t) \/ Relayed(t)
    \/ FetchFavicon \/ \E page \in 1..MaxNumber : ListCached(page)
    \/ \E c \in cached : KeepsCached(c)
    \/ SiteRequests \/ SessionEnds \/ Forget \/ SiteRestart

SiteSpec == SiteInit /\ [][SiteNext]_siteVars

-----------------------------------------------------------------------------
(* Properties. *)

\* "a session's favicon is fetched once": however many pages end at the same
\* time, the site is asked for its icon once per session and process, the way a
\* browser does (tests/test_site_browser.py).
FaviconOnce == fetches <= 1

\* The panel misses a record it could still list only when a slower request,
\* numbered before another, ended after that one was listed, or when the
\* platform restarted and numbers from 1 again.
PanelMissesOvertaken ==
    ended = "open" =>
        \A id \in Ids(records) : id <= panel.after => id \in panel.shown \cup overtaken

\* The panel misses only what was overtaken, and the favicon is fetched once.
PanelFollowsTheSite == PanelMissesOvertaken /\ FaviconOnce
=============================================================================
