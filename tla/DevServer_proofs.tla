--------------------------- MODULE DevServer_proofs ---------------------------
(***************************************************************************)
(* What the cache and the browsers have, for any files, includes and       *)
(* browsers and however long the server runs.                              *)
(***************************************************************************)
EXTENDS DevServer, TLAPS

\* The files that page p is built from: those in every set of files that has p and what
\* its files include.
Needed(p) ==
    {f \in Files : \A S \in SUBSET Files : (p \in S /\ \A g \in S : Includes[g] \subseteq S) => f \in S}

\* The changes that the server knows of, or that nobody will tell it.
Heard == Pending \cup Unheard

Versions == 1..MaxWrites + 1
Texts == UNION {[S -> Versions] : S \in SUBSET Files}
Browser == [does : {"away", "asks", "builds", "shows", "greets", "live"},
            url : Urls \cup {NoUrl}, text : Texts, reading : Files \cup {NoFile}]

Types ==
    /\ disk \in [Files -> Versions]
    /\ watched \subseteq Files /\ lost \subseteq Files
    /\ events \in Seq(Files) /\ pump \in Files \cup {"idle", "stuck"}
    /\ Cached \subseteq Files /\ \A t \in Cached : templates[t] \in Texts
    /\ deps \in [Files -> SUBSET Files]
    /\ client \in [Clients -> Browser]
    /\ Registered \subseteq Clients
    /\ reloads \in [Clients -> Nat]

\* Every file that was read is watched, and a page that is shown was built from all its files.
BrowserOK(c) ==
    /\ c \in Registered <=> Connected(c)
    /\ client[c].does # "away" => client[c].url \in Urls
    /\ DOMAIN client[c].text \subseteq watched
    /\ client[c].does # "builds" => client[c].reading = NoFile
    /\ client[c].does = "builds" =>
          /\ DOMAIN client[c].text \subseteq Needed(Page(c))
          /\ client[c].reading # NoFile => client[c].reading \in Needed(Page(c)) \cap watched
    /\ client[c].does = "shows" \/ Connected(c) => DOMAIN client[c].text = Needed(Page(c))

\* A cached template is listed in the dependencies of every file that it is built from.
CacheOK(t) ==
    /\ DOMAIN templates[t] = Needed(t) /\ Needed(t) \subseteq watched
    /\ \A f \in Needed(t) : t \in deps[f]

\* What excuses a connected browser, until the connection ends: a reload is on its way or has
\* been lost, or it was taken for one that shows what is in the cache.
Excuse(c) == reloads[c] > 0 \/ client[c].does = "greets" \/ c \in late \cup missed

\* But for that, the page of a connected browser is cached and the connection has its name: it
\* will be told when the page leaves the cache.
Informed(c) == c \in Registered => (Page(c) \in Cached /\ live[c] = Stem[Page(c)]) \/ Excuse(c)

FreshTemplate(t) == t \notin excused => Older(templates[t]) \subseteq Heard
Follows(c) ==
    c \in Registered => Older(client[c].text) \subseteq Heard \/ Excuse(c) \/ Page(c) \in excused

ServerInv ==
    /\ Types
    /\ \A c \in Clients : BrowserOK(c) /\ Informed(c) /\ Follows(c)
    /\ \A t \in Cached : CacheOK(t) /\ FreshTemplate(t)

-----------------------------------------------------------------------------
(***************************************************************************)
(* The files of a page.                                                    *)
(***************************************************************************)

\* The files of a page are among them the page and what they include.
LEMMA NeededIsClosed ==
    ASSUME NEW p \in Files
    PROVE  /\ p \in Needed(p) /\ Needed(p) \subseteq Files
           /\ \A f \in Needed(p) : Includes[f] \subseteq Needed(p)
  <1>1. ASSUME NEW f \in Needed(p), NEW g \in Includes[f] PROVE g \in Needed(p)
    <2>1. f \in Files /\ g \in Files
      BY <1>1, ServerAssumption DEF Needed
    <2>2. ASSUME NEW S \in SUBSET Files, p \in S, \A h \in S : Includes[h] \subseteq S PROVE g \in S
      <3>1. f \in S
        BY <2>2 DEF Needed
      <3> QED
        BY <2>2, <3>1
    <2> QED
      BY <2>1, <2>2 DEF Needed
  <1> QED
    BY <1>1 DEF Needed

\* A part of them that has the page and what its files include is all of them.
LEMMA ClosedIsNeeded ==
    ASSUME NEW p \in Files, NEW S \in SUBSET Files, S \subseteq Needed(p), p \in S,
           \A g \in S : Includes[g] \subseteq S
    PROVE  S = Needed(p)
  BY DEF Needed

LEMMA EmptyText == <<>> \in Texts /\ DOMAIN <<>> = {}
  <1>1. <<>> \in Seq(Versions) /\ Len(<<>>) = 0 /\ DOMAIN <<>> = 1..0
    OBVIOUS
  <1>2. 1..0 = {}
    OBVIOUS
  <1>3. <<>> = [i \in {} |-> <<>>[i]]
    BY <1>1, <1>2
  <1>4. <<>> \in [{} -> Versions] /\ {} \in SUBSET Files
    BY <1>3
  <1> QED
    BY <1>1, <1>2, <1>4 DEF Texts

LEMMA TextIsOfFiles == ASSUME NEW x \in Texts PROVE DOMAIN x \subseteq Files
  BY DEF Texts

-----------------------------------------------------------------------------
(***************************************************************************)
(* The steps that move neither cache nor browsers, and those of a browser  *)
(* that is not connected after them.                                       *)
(***************************************************************************)

\* The changes of files: what is newer is heard of, or was not watched.
LEMMA FilesStep ==
    ASSUME ServerInv, Types', UNCHANGED <<watched, cache, client, live, reloads, excused, late, missed>>,
           Heard \cap Files \subseteq Heard', \A f \in watched : disk'[f] = disk[f] \/ f \in Heard'
    PROVE  ServerInv'
  <1>1. ASSUME NEW c \in Clients PROVE BrowserOK(c)' /\ Informed(c)'
    BY DEF ServerInv, BrowserOK, Informed, Excuse, Page, Connected, Registered, cache, Cached
  <1>2. ASSUME NEW t \in Cached PROVE CacheOK(t)'
    BY DEF ServerInv, CacheOK, cache
  <1>3. ASSUME NEW x \in Texts, DOMAIN x \subseteq watched, Older(x) \subseteq Heard
        PROVE  \A f \in DOMAIN x : x[f] < disk'[f] => f \in Heard'
    <2> SUFFICES ASSUME NEW f \in DOMAIN x, x[f] < disk'[f], f \notin Heard' PROVE FALSE
      OBVIOUS
    <2>1. f \in Files /\ disk'[f] = disk[f]
      BY <1>3, TextIsOfFiles
    <2>2. f \in Heard
      BY <1>3, <2>1 DEF Older
    <2> QED
      BY <2>1, <2>2
  <1>4. ASSUME NEW c \in Clients PROVE Follows(c)'
    <2>1. client[c].text \in Texts /\ DOMAIN client[c].text \subseteq watched /\ Follows(c)
      BY DEF ServerInv, BrowserOK, Types, Browser
    <2>2. Older(client[c].text) \subseteq Heard => (Older(client[c].text) \subseteq Heard)'
      BY <1>3, <2>1 DEF Older
    <2> QED
      BY <2>1, <2>2 DEF Follows, Excuse, Page, Registered
  <1>5. ASSUME NEW t \in Cached PROVE FreshTemplate(t)'
    <2>1. templates[t] \in Texts /\ DOMAIN templates[t] \subseteq watched /\ FreshTemplate(t)
      BY DEF ServerInv, CacheOK, Types
    <2>2. Older(templates[t]) \subseteq Heard => (Older(templates[t]) \subseteq Heard)'
      BY <1>3, <2>1 DEF Older, cache
    <2> QED
      BY <2>1, <2>2 DEF FreshTemplate
  <1>6. Cached' = Cached
    BY DEF Cached, cache
  <1> QED
    BY <1>1, <1>2, <1>4, <1>5, <1>6 DEF ServerInv

\* What is new of one browser does not concern the cache nor another browser.
LEMMA BrowserStep ==
    ASSUME ServerInv, Types', NEW c \in Clients, BrowserOK(c)', Informed(c)', Follows(c)',
           UNCHANGED <<disk, lost, events, pump, cache, excused>>, watched \subseteq watched',
           \A d \in Clients \ {c} : /\ client'[d] = client[d] /\ reloads'[d] = reloads[d]
                                    /\ d \in Registered' <=> d \in Registered
                                    /\ d \in Registered => live'[d] = live[d]
                                    /\ d \in late' <=> d \in late
                                    /\ d \in missed' <=> d \in missed
    PROVE  ServerInv'
  <1>1. Cached' = Cached /\ templates' = templates /\ deps' = deps
    BY DEF Cached, cache
  <1>2. Heard' = Heard
    BY DEF Heard, Pending, Unheard
  <1>3. ASSUME NEW d \in Clients PROVE BrowserOK(d)' /\ Informed(d)' /\ Follows(d)'
    <2>1. CASE d = c
      BY <2>1
    <2>2. CASE d # c
      <3>1. BrowserOK(d) /\ Informed(d) /\ Follows(d)
        BY DEF ServerInv
      <3>2. (Excuse(d) <=> Excuse(d)') /\ Page(d)' = Page(d)
        BY <2>2 DEF Excuse, Page
      <3> QED
        BY <1>1, <1>2, <2>2, <3>1, <3>2 DEF BrowserOK, Informed, Follows, Older, Page, Connected
    <2> QED
      BY <2>1, <2>2
  <1>4. ASSUME NEW t \in Cached PROVE CacheOK(t)' /\ FreshTemplate(t)'
    <2>1. CacheOK(t) /\ FreshTemplate(t)
      BY DEF ServerInv
    <2> QED
      BY <1>1, <1>2, <2>1 DEF CacheOK, FreshTemplate, Older
  <1> QED
    BY <1>1, <1>3, <1>4 DEF ServerInv

\* A browser whose connection has ended, and that of no other.
LEMMA EndsConnection ==
    ASSUME ServerInv, NEW c \in Clients, NEW n, Ends(c, n)
    PROVE  /\ c \notin Registered' /\ Registered' \subseteq Clients /\ reloads' \in [Clients -> Nat]
           /\ UNCHANGED <<disk, watched, lost, events, pump, cache, excused>>
           /\ \A d \in Clients \ {c} : /\ reloads'[d] = reloads[d]
                                       /\ d \in Registered' <=> d \in Registered
                                       /\ d \in Registered => live'[d] = live[d]
                                       /\ d \in late' <=> d \in late
                                       /\ d \in missed' <=> d \in missed
  <1>1. Registered' = Registered \ {c} /\ \A d \in Registered' : live'[d] = live[d]
    BY DEF Ends, Registered, Restrict
  <1> QED
    BY <1>1 DEF Ends, ServerInv, Types, files

-----------------------------------------------------------------------------
(***************************************************************************)
(* The files and their events.                                             *)
(***************************************************************************)
LEMMA WriteServer == ASSUME ServerInv, NEW f \in Files, Write(f) PROVE ServerInv'
  <1>1. disk' = [disk EXCEPT ![f] = @ + 1] /\ disk[f] + 1 \in Versions
    BY ServerAssumption DEF Write, Writes, ServerInv, Types, Versions
  <1>2. /\ events' = IF f \in watched \ lost THEN Append(events, f) ELSE events
        /\ UNCHANGED <<watched, lost, pump, cache, client, live, reloads, excused, late, missed>>
    BY DEF Write, connections
  <1>3. Types'
    BY <1>1, <1>2 DEF ServerInv, Types, cache, Cached, Registered
  <1>4. Range(events) \subseteq Range(events')
    BY <1>2 DEF ServerInv, Types, Range
  <1>5. Heard \subseteq Heard'
    BY <1>2, <1>4 DEF Heard, Pending, Unheard
  <1>6. ASSUME f \in watched PROVE f \in Heard'
    <2>1. CASE f \in lost
      BY <1>2, <2>1 DEF Heard, Unheard
    <2>2. CASE f \notin lost
      <3>1. events' = Append(events, f) /\ events \in Seq(Files)
        BY <1>2, <1>6, <2>2 DEF ServerInv, Types
      <3>2. Len(events) + 1 \in DOMAIN events' /\ events'[Len(events) + 1] = f
        BY <3>1
      <3>3. f \in Range(events')
        BY <3>2 DEF Range
      <3> QED
        BY <3>3 DEF Heard, Pending
    <2> QED
      BY <2>1, <2>2
  <1>7. \A g \in watched : disk'[g] = disk[g] \/ g \in Heard'
    BY <1>1, <1>6 DEF ServerInv, Types
  <1> QED
    BY <1>2, <1>3, <1>5, <1>7, FilesStep

LEMMA ReplaceServer == ASSUME ServerInv, NEW f \in Files, Replace(f) PROVE ServerInv'
  <1>1. disk' = [disk EXCEPT ![f] = @ + 1] /\ disk[f] + 1 \in Versions
    BY ServerAssumption DEF Replace, Writes, ServerInv, Types, Versions
  <1>2. /\ lost = {} /\ lost' = {f}
        /\ UNCHANGED <<watched, events, pump, cache, client, live, reloads, excused, late, missed>>
    BY DEF Replace, OneFault, connections
  <1>3. Types'
    BY <1>1, <1>2 DEF ServerInv, Types, cache, Cached, Registered
  <1>4. Heard \subseteq Heard' /\ f \in Heard'
    BY <1>2 DEF Heard, Pending, Unheard
  <1>5. \A g \in watched : disk'[g] = disk[g] \/ g \in Heard'
    BY <1>1, <1>4 DEF ServerInv, Types
  <1> QED
    BY <1>2, <1>3, <1>4, <1>5, FilesStep

LEMMA PumpServer == ASSUME ServerInv, PumpTakes \/ PumpGetsError PROVE ServerInv'
  <1>1. pump = "idle" /\ UNCHANGED <<disk, watched, lost, cache, client, live, reloads, excused, late, missed>>
    BY DEF PumpTakes, PumpGetsError, connections, files
  <1>2. "idle" \notin Files
    BY ServerAssumption
  <1>3. CASE PumpTakes
    <2>1. events \in Seq(Files) /\ events # <<>> /\ pump' = Head(events) /\ events' = Tail(events)
      BY <1>3 DEF PumpTakes, ServerInv, Types
    <2>2. Head(events) \in Files /\ Tail(events) \in Seq(Files)
      BY <2>1
    <2>3. Types'
      BY <1>1, <2>1, <2>2 DEF ServerInv, Types, cache, Cached, Registered
    <2>4. Range(events) \subseteq {pump'} \cup Range(events')
      <3> SUFFICES ASSUME NEW i \in DOMAIN events PROVE events[i] \in {pump'} \cup Range(events')
        BY DEF Range
      <3>1. CASE i = 1
        BY <2>1, <3>1
      <3>2. CASE i # 1
        <4>1. i - 1 \in DOMAIN events' /\ events'[i - 1] = events[i]
          BY <2>1, <3>2
        <4> QED
          BY <4>1 DEF Range
      <3> QED
        BY <3>1, <3>2
    <2>5. Heard \cap Files \subseteq Heard'
      BY <1>1, <1>2, <2>4 DEF Heard, Pending, Unheard
    <2> QED
      BY <1>1, <2>3, <2>5, FilesStep
  <1>4. CASE PumpGetsError
    <2>1. pump' = "stuck" /\ events' = events
      BY <1>4 DEF PumpGetsError, files
    <2>2. Types'
      BY <1>1, <2>1 DEF ServerInv, Types, cache, Cached, Registered
    <2>3. Files \subseteq Heard'
      BY <2>1 DEF Heard, Unheard
    <2> QED
      BY <1>1, <2>2, <2>3, FilesStep
  <1> QED
    BY <1>3, <1>4

\* The pages that leave the cache are told, the cached ones that do not are excused.
LEMMA InvalidateServer == ASSUME ServerInv, Invalidate PROVE ServerInv'
  <1> DEFINE out == Invalidated(pump)
  <1>1. /\ pump \in Files /\ pump' = "idle"
        /\ UNCHANGED <<disk, watched, lost, events, client, live, late, missed>>
        /\ templates' = Restrict(templates, Cached \ out)
        /\ deps' = [f \in Files |-> deps[f] \ out]
        /\ reloads' = [c \in Clients |-> IF c \in Told(out) THEN reloads[c] + 1 ELSE reloads[c]]
        /\ excused' = (excused \cup (IF pump \in Cached THEN deps[pump] ELSE {})) \ out
    BY DEF Invalidate, files
  <1>2. Cached' = Cached \ out /\ \A t \in Cached' : templates'[t] = templates[t]
    BY <1>1 DEF Cached, Restrict
  <1>3. Types'
    <2>1. reloads' \in [Clients -> Nat] /\ Registered' = Registered
      BY <1>1 DEF ServerInv, Types, Registered
    <2> HIDE DEF out
    <2> QED
      BY <1>1, <1>2, <2>1 DEF ServerInv, Types
  \* Whatever needs the changed file has left or is excused.
  <1>4. ASSUME NEW t \in Cached, pump \in Needed(t) PROVE t \in out \/ t \in excused'
    <2>1. t \in deps[pump]
      BY <1>4 DEF ServerInv, CacheOK
    <2>2. CASE pump \in Cached
      BY <1>1, <2>1, <2>2
    <2>3. CASE pump \notin Cached
      BY <2>1, <2>3 DEF Invalidated
    <2> QED
      BY <2>2, <2>3
  <1>5. Heard \subseteq Heard' \cup {pump}
    <2>1. pump # "stuck"
      BY <1>1, ServerAssumption
    <2> QED
      BY <1>1, <2>1 DEF Heard, Pending, Unheard
  <1>6. ASSUME NEW t \in Cached' PROVE CacheOK(t)' /\ FreshTemplate(t)'
    <2>1. t \in Cached /\ t \notin out /\ templates'[t] = templates[t] /\ CacheOK(t) /\ FreshTemplate(t)
      BY <1>2 DEF ServerInv
    <2>2. Needed(t) \subseteq Files
      BY <2>1, NeededIsClosed DEF ServerInv, Types
    <2>3. CacheOK(t)'
      BY <1>1, <2>1, <2>2 DEF CacheOK
    <2>4. ASSUME t \notin excused' PROVE (Older(templates[t]) \subseteq Heard)'
      <3>1. pump \notin Needed(t) /\ t \notin excused
        BY <1>1, <1>4, <2>1, <2>4
      <3>2. Older(templates[t]) \subseteq Heard /\ pump \notin Older(templates[t])
        BY <2>1, <3>1 DEF FreshTemplate, CacheOK, Older
      <3>3. Older(templates[t])' = Older(templates[t])
        BY <1>1, <2>1 DEF Older
      <3> QED
        BY <1>5, <3>2, <3>3
    <2>5. FreshTemplate(t)'
      BY <2>4 DEF FreshTemplate
    <2> QED
      BY <2>3, <2>5
  <1>7. ASSUME NEW c \in Clients PROVE BrowserOK(c)' /\ Informed(c)' /\ Follows(c)'
    <2> DEFINE p == Page(c)
    <2>1. BrowserOK(c) /\ Informed(c) /\ Follows(c)
      BY DEF ServerInv
    <2>2. BrowserOK(c)' /\ Page(c)' = p /\ Registered' = Registered
      BY <1>1, <2>1 DEF BrowserOK, Page, Connected, Registered
    <2>3. Excuse(c) => Excuse(c)'
      BY <1>1 DEF Excuse, ServerInv, Types
    <2>4. ASSUME c \in Registered, ~Excuse(c)', p \in out PROVE FALSE
      <3>1. live[c] = Stem[p]
        BY <2>1, <2>3, <2>4 DEF Informed
      <3>2. c \in Told(out)
        BY <2>4, <3>1 DEF Told
      <3> QED
        BY <1>1, <2>4, <3>2 DEF Excuse, ServerInv, Types
    <2>5. Informed(c)'
      BY <1>1, <1>2, <2>1, <2>2, <2>3, <2>4 DEF Informed
    <2>6. ASSUME c \in Registered, ~Excuse(c)', p \notin excused'
          PROVE  Older(client[c].text)' \subseteq Heard'
      <3>1. p \in Cached /\ p \notin out /\ DOMAIN client[c].text = Needed(p)
        BY <2>1, <2>3, <2>4, <2>6 DEF Informed, BrowserOK
      <3>2. pump \notin Needed(p) /\ p \notin excused
        BY <1>1, <1>4, <2>6, <3>1
      <3>3. Older(client[c].text) \subseteq Heard /\ pump \notin Older(client[c].text)
        BY <2>1, <2>3, <2>6, <3>1, <3>2 DEF Follows, Older
      <3>4. Older(client[c].text)' = Older(client[c].text)
        BY <1>1 DEF Older
      <3> QED
        BY <1>5, <3>3, <3>4
    <2>7. Follows(c)'
      BY <2>2, <2>6 DEF Follows
    <2> QED
      BY <2>2, <2>5, <2>7
  <1> QED
    BY <1>3, <1>6, <1>7 DEF ServerInv

-----------------------------------------------------------------------------
(***************************************************************************)
(* The requests.                                                           *)
(***************************************************************************)
\* A browser that is not connected after the step.
LEMMA UnconnectedStep ==
    ASSUME ServerInv, Types', NEW c \in Clients, BrowserOK(c)', c \notin Registered',
           UNCHANGED <<disk, lost, events, pump, cache, excused>>, watched \subseteq watched',
           \A d \in Clients \ {c} : client'[d] = client[d],
           \/ UNCHANGED connections /\ late' = late
           \/ \E n : Ends(c, n)
    PROVE  ServerInv'
  <1>1. Informed(c)' /\ Follows(c)'
    BY DEF Informed, Follows
  <1>2. CASE UNCHANGED connections /\ late' = late
    BY <1>1, <1>2, BrowserStep DEF connections, Registered
  <1>3. ASSUME NEW n, Ends(c, n) PROVE ServerInv'
    BY <1>1, <1>3, EndsConnection, BrowserStep
  <1> QED
    BY <1>2, <1>3

\* A browser that asks for a page, the first time or again.
LEMMA AskingServer ==
    ASSUME ServerInv, NEW c \in Clients, NEW u \in Urls, client' = [client EXCEPT ![c] = Asking(u)],
           \/ /\ ~Connected(c)
              /\ UNCHANGED <<files, pump, cache, connections, excused, late>>
           \/ \E n : Ends(c, n)
    PROVE  ServerInv'
  <1> DEFINE b == Asking(u)
  <1>1. /\ c \notin Registered' /\ Registered' \subseteq Clients /\ reloads' \in [Clients -> Nat]
        /\ UNCHANGED <<disk, watched, lost, events, pump, cache, excused>>
    <2>1. CASE ~Connected(c) /\ UNCHANGED <<files, pump, cache, connections, excused, late>>
      BY <2>1 DEF ServerInv, BrowserOK, Types, files, connections, Registered
    <2> QED
      BY <2>1, EndsConnection
  <1>2. b \in Browser /\ b.does = "asks" /\ b.url = u /\ b.text = <<>> /\ b.reading = NoFile
        /\ b = Asking(u)
    BY EmptyText DEF Asking, Away, Browser
  <1> HIDE DEF b
  <1>3. Types' /\ client'[c] = b /\ \A d \in Clients \ {c} : client'[d] = client[d]
    BY <1>1, <1>2 DEF ServerInv, Types, cache, Cached
  <1>4. BrowserOK(c)'
    BY <1>1, <1>2, <1>3, EmptyText DEF BrowserOK, Connected
  <1> QED
    BY <1>1, <1>3, <1>4, UnconnectedStep

LEMMA OpenServer ==
    ASSUME ServerInv, NEW c \in Clients, NEW u \in Visits[c], Open(c, u) PROVE ServerInv'
  <1>1. u \in Urls
    BY ServerAssumption
  <1>2. /\ ~Connected(c) /\ client' = [client EXCEPT ![c] = Asking(u)]
        /\ UNCHANGED <<files, pump, cache, connections, excused, late>>
    BY DEF Open, Does, Connected
  <1> QED
    BY <1>1, <1>2, AskingServer

\* A browser that goes away.
LEMMA AwayServer ==
    ASSUME ServerInv, NEW c \in Clients, client' = [client EXCEPT ![c] = Away],
           \/ /\ ~Connected(c)
              /\ UNCHANGED <<files, pump, cache, connections, excused, late>>
           \/ \E n : Ends(c, n)
    PROVE  ServerInv'
  <1>1. /\ c \notin Registered' /\ Registered' \subseteq Clients /\ reloads' \in [Clients -> Nat]
        /\ UNCHANGED <<disk, watched, lost, events, pump, cache, excused>>
    <2>1. CASE ~Connected(c) /\ UNCHANGED <<files, pump, cache, connections, excused, late>>
      BY <2>1 DEF ServerInv, BrowserOK, Types, files, connections, Registered
    <2> QED
      BY <2>1, EndsConnection
  <1>2. Away \in Browser /\ Away.does = "away" /\ Away.text = <<>> /\ Away.reading = NoFile
    BY EmptyText DEF Away, Browser
  <1>3. Types' /\ client'[c] = Away /\ \A d \in Clients \ {c} : client'[d] = client[d]
    BY <1>1, <1>2 DEF ServerInv, Types, cache, Cached
  <1>4. BrowserOK(c)'
    BY <1>1, <1>2, <1>3, EmptyText DEF BrowserOK, Connected
  <1> QED
    BY <1>1, <1>3, <1>4, UnconnectedStep

\* The connection of a browser fails.
LEMMA DropServer == ASSUME ServerInv, NEW c \in Clients, Drop(c) PROVE ServerInv'
  <1>1. /\ client[c].does = "live" /\ client' = [client EXCEPT ![c].does = "shows"]
        /\ Ends(c, reloads[c])
    BY DEF Drop, Does
  <1>2. /\ c \notin Registered' /\ Registered' \subseteq Clients /\ reloads' \in [Clients -> Nat]
        /\ UNCHANGED <<disk, watched, lost, events, pump, cache, excused>>
    BY <1>1, EndsConnection
  <1>3. BrowserOK(c) /\ client[c] \in Browser
    BY DEF ServerInv, Types
  <1>4. client'[c] \in Browser /\ client'[c].reading = client[c].reading
        /\ client'[c].does = "shows" /\ client'[c].text = client[c].text
        /\ client'[c].url = client[c].url /\ Page(c)' = Page(c)
        /\ \A d \in Clients \ {c} : client'[d] = client[d]
    BY <1>1, <1>3 DEF ServerInv, Types, Browser, Page
  <1>5. Types'
    BY <1>1, <1>2, <1>4 DEF ServerInv, Types, cache, Cached
  <1>6. BrowserOK(c)'
    BY <1>1, <1>2, <1>3, <1>4 DEF BrowserOK, Connected
  <1> QED
    BY <1>1, <1>2, <1>4, <1>5, <1>6, UnconnectedStep

LEMMA LookupServer == ASSUME ServerInv, NEW c \in Clients, Lookup(c) PROVE ServerInv'
  <1> DEFINE p == Page(c)
             text == IF p \in Cached THEN templates[p] ELSE <<>>
             does == IF p \in Cached THEN "shows" ELSE "builds"
  <1>1. /\ client[c].does = "asks" /\ client' = [client EXCEPT ![c].does = does, ![c].text = text]
        /\ UNCHANGED <<disk, watched, lost, events, pump, cache, connections, excused, late>>
    BY DEF Lookup, Does, files
  <1>2. <<>> \in Texts /\ DOMAIN <<>> = {}
    BY EmptyText
  <1>3. client[c] \in Browser /\ text \in Texts
    BY <1>2 DEF ServerInv, Types
  <1>4. client'[c] \in Browser /\ client'[c].does = does /\ client'[c].text = text
        /\ client'[c].url = client[c].url /\ client'[c].reading = client[c].reading
        /\ Page(c)' = p /\ \A d \in Clients \ {c} : client'[d] = client[d]
    BY <1>1, <1>3 DEF ServerInv, Types, Browser, Page
  <1>5. Types'
    BY <1>1, <1>4 DEF ServerInv, Types, cache, Cached, connections, Registered
  <1>6. c \notin Registered' /\ client[c].url \in Urls
    BY <1>1 DEF ServerInv, BrowserOK, Connected, connections, Registered
  <1>7. p \in Cached => DOMAIN text = Needed(p) /\ DOMAIN text \subseteq watched
    BY DEF ServerInv, CacheOK
  <1>8. p \notin Cached => DOMAIN text = {}
    BY <1>2
  <1>9. does \in {"shows", "builds"} /\ (does = "shows" <=> p \in Cached)
    OBVIOUS
  <1>10. client[c].reading = NoFile
    BY <1>1 DEF ServerInv, BrowserOK
  <1> HIDE DEF text, does
  <1>11. BrowserOK(c)'
    <2>1. CASE does = "shows"
      BY <1>1, <1>4, <1>6, <1>7, <1>9, <1>10, <2>1 DEF BrowserOK, Connected
    <2>2. CASE does = "builds"
      BY <1>1, <1>4, <1>6, <1>8, <1>9, <1>10, <2>2 DEF BrowserOK, Connected
    <2> QED
      BY <1>9, <2>1, <2>2
  <1> QED
    BY <1>1, <1>4, <1>5, <1>6, <1>11, UnconnectedStep

LEMMA WatchServer ==
    ASSUME ServerInv, NEW c \in Clients, NEW f \in Files, Watch(c, f) PROVE ServerInv'
  <1>1. /\ client[c].does = "builds" /\ f \in Missing(c)
        /\ watched' = watched \cup {f} /\ client' = [client EXCEPT ![c].reading = f]
        /\ UNCHANGED <<disk, lost, events, pump, cache, connections, excused, late>>
    BY DEF Watch, Does
  <1>2. client'[c] \in Browser /\ client'[c].reading = f /\ Page(c)' = Page(c)
        /\ client'[c].does = "builds" /\ client'[c].text = client[c].text /\ client'[c].url = client[c].url
        /\ \A d \in Clients \ {c} : client'[d] = client[d]
    BY <1>1 DEF ServerInv, Types, Browser, Page
  <1>3. Types'
    BY <1>1, <1>2 DEF ServerInv, Types, cache, Cached, connections, Registered
  <1>4. BrowserOK(c) /\ client[c].url \in Urls /\ Page(c) \in Files
    BY <1>1, ServerAssumption DEF ServerInv, BrowserOK, Page
  <1>5. f \in Needed(Page(c))
    BY <1>1, <1>4, NeededIsClosed DEF Missing, BrowserOK
  <1>6. BrowserOK(c)' /\ c \notin Registered'
    BY <1>1, <1>2, <1>4, <1>5 DEF BrowserOK, Connected, connections, Registered
  <1> QED
    BY <1>1, <1>2, <1>3, <1>6, UnconnectedStep

LEMMA ReadServer == ASSUME ServerInv, NEW c \in Clients, Read(c) PROVE ServerInv'
  <1> DEFINE f == client[c].reading
             text == [g \in DOMAIN client[c].text \cup {f} |-> IF g = f THEN disk[f] ELSE client[c].text[g]]
  <1>1. /\ client[c].does = "builds" /\ f # NoFile
        /\ client' = [client EXCEPT ![c].text = text, ![c].reading = NoFile]
        /\ UNCHANGED <<disk, watched, lost, events, pump, cache, connections, excused, late>>
    BY DEF Read, Does, files
  <1>2. BrowserOK(c) /\ client[c].url \in Urls /\ client[c] \in Browser
    BY <1>1 DEF ServerInv, BrowserOK, Types
  <1>3. f \in Needed(Page(c)) \cap watched /\ f \in Files /\ disk[f] \in Versions
    BY <1>1, <1>2 DEF BrowserOK, Needed, ServerInv, Types
  <1>4. text \in Texts /\ DOMAIN text = DOMAIN client[c].text \cup {f}
    <2>1. PICK S \in SUBSET Files : client[c].text \in [S -> Versions]
      BY <1>2 DEF Browser, Texts
    <2>2. S \cup {f} \in SUBSET Files /\ text \in [S \cup {f} -> Versions]
      BY <1>3, <2>1
    <2> QED
      BY <2>1, <2>2 DEF Texts
  <1> HIDE DEF text
  <1>5. client'[c] \in Browser /\ client'[c].reading = NoFile /\ Page(c)' = Page(c)
        /\ client'[c].does = "builds" /\ client'[c].text = text /\ client'[c].url = client[c].url
        /\ \A d \in Clients \ {c} : client'[d] = client[d]
    BY <1>1, <1>2, <1>4 DEF ServerInv, Types, Browser, Page
  <1>6. Types'
    BY <1>1, <1>5 DEF ServerInv, Types, cache, Cached, connections, Registered
  <1>7. BrowserOK(c)' /\ c \notin Registered'
    BY <1>1, <1>2, <1>3, <1>4, <1>5 DEF BrowserOK, Connected, connections, Registered
  <1> QED
    BY <1>1, <1>5, <1>6, <1>7, UnconnectedStep

\* A build that has nothing more to read has read what its page needs.
LEMMA BuiltFromNeeded ==
    ASSUME ServerInv, NEW c \in Clients, client[c].does = "builds", Missing(c) = {}
    PROVE  DOMAIN client[c].text = Needed(Page(c))
  <1> DEFINE S == DOMAIN client[c].text
  <1>1. Page(c) \in Files /\ S \subseteq Needed(Page(c)) /\ S \in SUBSET Files
    BY ServerAssumption, TextIsOfFiles DEF ServerInv, BrowserOK, Types, Browser, Page
  <1>2. Page(c) \in S /\ \A g \in S : Includes[g] \subseteq S
    BY DEF Missing
  <1> QED
    BY <1>1, <1>2, ClosedIsNeeded

\* The template that is stored is the one of the page for every browser, that is late when what it
\* shows is older and was excused by the template before.
LEMMA StoreServer == ASSUME ServerInv, NEW c \in Clients, Store(c) PROVE ServerInv'
  <1> DEFINE p == Page(c)
             text == client[c].text
  <1>1. /\ client[c].does = "builds" /\ client[c].reading = NoFile /\ Missing(c) = {}
        /\ templates' = [t \in Cached \cup {p} |-> IF t = p THEN text ELSE templates[t]]
        /\ deps' = [f \in Files |-> IF f \in DOMAIN text THEN deps[f] \cup {p} ELSE deps[f]]
        /\ excused' = IF Outdated(text) THEN excused \cup {p} ELSE excused \ {p}
        /\ late' = late \cup {d \in Registered : Page(d) = p /\ Outdated(client[d].text)}
        /\ client' = [client EXCEPT ![c].does = "shows"]
        /\ UNCHANGED <<disk, watched, lost, events, pump, live, reloads, missed>>
    BY DEF Store, Does, DependsOn, files, connections
  <1>2. BrowserOK(c) /\ client[c].url \in Urls /\ p \in Files /\ client[c] \in Browser /\ text \in Texts
    BY <1>1, ServerAssumption DEF ServerInv, BrowserOK, Types, Browser, Page
  <1>3. DOMAIN text = Needed(p)
    BY <1>1, BuiltFromNeeded
  <1>4. /\ Cached' = Cached \cup {p} /\ templates'[p] = text
        /\ \A t \in Cached \ {p} : templates'[t] = templates[t]
    BY <1>1 DEF Cached
  <1>5. client'[c] \in Browser /\ client'[c].reading = NoFile
        /\ client'[c].does = "shows" /\ client'[c].text = text /\ client'[c].url = client[c].url
        /\ Registered' = Registered /\ (\A d \in Clients : Page(d)' = Page(d))
        /\ \A d \in Clients \ {c} : client'[d] = client[d]
    BY <1>1, <1>2 DEF ServerInv, Types, Browser, Page, Registered
  <1>6. Types'
    <2>1. deps' \in [Files -> SUBSET Files]
      BY <1>1, <1>2 DEF ServerInv, Types
    <2>2. Cached' \subseteq Files /\ \A t \in Cached' : templates'[t] \in Texts
      BY <1>2, <1>4 DEF ServerInv, Types
    <2> QED
      BY <1>1, <1>5, <2>1, <2>2 DEF ServerInv, Types
  <1>7. Heard' = Heard /\ \A x : Older(x)' = Older(x)
    BY <1>1 DEF Heard, Pending, Unheard, Older
  <1>8. ASSUME NEW t \in Cached' PROVE CacheOK(t)' /\ FreshTemplate(t)'
    <2>1. CASE t = p
      <3>1. CacheOK(t)'
        BY <1>1, <1>2, <1>3, <1>4, <2>1, NeededIsClosed DEF CacheOK, BrowserOK
      <3>2. FreshTemplate(t)'
        <4> SUFFICES ASSUME t \notin excused' PROVE (Older(templates[t]) \subseteq Heard)'
          BY DEF FreshTemplate
        <4>1. Older(text) \subseteq Pending
          BY <1>1, <2>1 DEF Outdated
        <4>2. Older(templates[t])' = Older(text)
          BY <1>1, <1>4, <2>1 DEF Older
        <4> QED
          BY <1>7, <4>1, <4>2 DEF Heard
      <3> QED
        BY <3>1, <3>2
    <2>2. CASE t # p
      <3>1. t \in Cached /\ templates'[t] = templates[t] /\ CacheOK(t) /\ FreshTemplate(t) /\ t \in Files
        BY <1>4, <2>2 DEF ServerInv, Types
      <3>2. CacheOK(t)'
        BY <1>1, <3>1, NeededIsClosed DEF CacheOK
      <3>3. Older(templates[t])' = Older(templates[t])
        BY <1>1, <3>1 DEF Older
      <3>4. FreshTemplate(t)'
        BY <1>1, <1>7, <2>2, <3>1, <3>3 DEF FreshTemplate
      <3> QED
        BY <3>2, <3>4
    <2> QED
      BY <2>1, <2>2
  <1>9. ASSUME NEW d \in Clients PROVE BrowserOK(d)' /\ Informed(d)' /\ Follows(d)'
    <2>1. CASE d = c
      <3>1. c \notin Registered'
        BY <1>1, <1>2, <1>5 DEF BrowserOK, Connected
      <3>2. BrowserOK(c)'
        BY <1>1, <1>2, <1>3, <1>5, <3>1 DEF BrowserOK, Connected
      <3> QED
        BY <2>1, <3>1, <3>2 DEF Informed, Follows
    <2>2. CASE d # c
      <3>1. BrowserOK(d) /\ Informed(d) /\ Follows(d) /\ client'[d] = client[d]
        BY <1>5, <2>2 DEF ServerInv
      <3>2. BrowserOK(d)' /\ (Excuse(d) => Excuse(d)')
        BY <1>1, <1>5, <3>1 DEF BrowserOK, Connected, Excuse
      <3>3. Informed(d)'
        BY <1>1, <1>4, <1>5, <3>1, <3>2 DEF Informed
      <3>4. Older(client[d].text)' = Older(client[d].text)
        BY <1>1, <3>1 DEF Older
      <3>5. ASSUME d \in Registered, ~Excuse(d)', Page(d) \notin excused'
            PROVE  Older(client[d].text) \subseteq Heard
        <4>1. CASE Page(d) = p
          BY <1>1, <3>5, <4>1 DEF Outdated, Heard, Excuse
        <4>2. CASE Page(d) # p
          BY <1>1, <3>1, <3>2, <3>5, <4>2 DEF Follows
        <4> QED
          BY <4>1, <4>2
      <3>6. Follows(d)'
        BY <1>5, <1>7, <3>4, <3>5 DEF Follows
      <3> QED
        BY <3>2, <3>3, <3>6
    <2> QED
      BY <2>1, <2>2
  <1> QED
    BY <1>6, <1>8, <1>9 DEF ServerInv

-----------------------------------------------------------------------------
(***************************************************************************)
(* The live reload.                                                        *)
(***************************************************************************)
\* The name of a connection is that of its page, if the page is in the cache.
LEMMA NameOfPage ==
    ASSUME ServerInv, NEW u \in Urls, PageOf[u] \in Cached
    PROVE  InCache(u) /\ RegisteredName(u) = Stem[PageOf[u]]
  <1>1. CASE Stem[PageOf[u]] = NameOf[u]
    BY <1>1 DEF InCache, RegisteredName, Finds
  <1>2. CASE Stem[PageOf[u]] = IndexOf[u] /\ \A f \in Files : Stem[f] # NameOf[u]
    <2>1. Finds(IndexOf[u]) /\ ~Finds(NameOf[u])
      BY <1>2 DEF Finds, ServerInv, Types
    <2> QED
      BY <1>2, <2>1 DEF InCache, RegisteredName
  <1> QED
    BY <1>1, <1>2, NamesAssumption

\* A browser that connects is excused, or its page is in the cache, no newer than what it shows.
LEMMA RegisterServer == ASSUME ServerInv, NEW c \in Clients, Register(c) PROVE ServerInv'
  <1> DEFINE u == client[c].url
             does == IF InCache(u) THEN "live" ELSE "greets"
  <1>1. /\ client[c].does = "shows" /\ client' = [client EXCEPT ![c].does = does]
        /\ live' = [d \in Registered \cup {c} |-> IF d = c THEN RegisteredName(u) ELSE live[d]]
        /\ late' = IF InCache(u) /\ (Page(c) \notin Cached \/ Outdated(client[c].text))
                   THEN late \cup {c} ELSE late
        /\ UNCHANGED <<disk, watched, lost, events, pump, cache, reloads, excused, missed>>
    BY DEF Register, Does, files
  <1>2. BrowserOK(c) /\ u \in Urls /\ client[c] \in Browser
    BY <1>1 DEF ServerInv, Types, BrowserOK
  <1>3. does \in {"live", "greets"} /\ (does = "live" <=> InCache(u))
    OBVIOUS
  <1> HIDE DEF does
  <1>4. client'[c] \in Browser /\ client'[c].reading = client[c].reading
        /\ client'[c].does = does /\ client'[c].text = client[c].text /\ client'[c].url = u
        /\ Page(c)' = Page(c) /\ \A d \in Clients \ {c} : client'[d] = client[d]
    BY <1>1, <1>2, <1>3 DEF ServerInv, Types, Browser, Page
  <1>5. Registered' = Registered \cup {c} /\ Cached' = Cached
    BY <1>1 DEF Registered, cache, Cached
  <1>6. Types'
    BY <1>1, <1>4, <1>5 DEF ServerInv, Types, cache
  <1>7. BrowserOK(c)'
    BY <1>1, <1>2, <1>3, <1>4, <1>5 DEF BrowserOK, Connected
  <1>8. ASSUME ~Excuse(c)'
        PROVE  /\ Page(c) \in Cached /\ live'[c] = Stem[Page(c)]
               /\ Older(client[c].text) \subseteq Heard
    <2>1. InCache(u) /\ Page(c) \in Cached /\ ~Outdated(client[c].text)
      BY <1>1, <1>3, <1>4, <1>8 DEF Excuse
    <2>2. live'[c] = RegisteredName(u)
      BY <1>1
    <2> QED
      BY <1>2, <2>1, <2>2, NameOfPage DEF Page, Outdated, Heard
  <1>9. Older(client[c].text)' = Older(client[c].text) /\ Heard' = Heard
    BY <1>1, <1>4 DEF Older, Heard, Pending, Unheard
  <1>10. Informed(c)' /\ Follows(c)'
    BY <1>4, <1>5, <1>8, <1>9 DEF Informed, Follows
  <1>11. \A d \in Clients \ {c} : d \in late' <=> d \in late
    BY <1>1
  <1> QED
    BY <1>1, <1>4, <1>5, <1>6, <1>7, <1>10, <1>11, BrowserStep

LEMMA ReloadServer == ASSUME ServerInv, NEW c \in Clients, Reload(c) PROVE ServerInv'
  <1>1. client[c].url \in Urls
    BY DEF Reload, Connected, ServerInv, BrowserOK
  <1>2. client' = [client EXCEPT ![c] = Asking(client[c].url)] /\ \E n : Ends(c, n)
    BY DEF Reload
  <1> QED
    BY <1>1, <1>2, AskingServer

LEMMA LosesServer == ASSUME ServerInv, NEW c \in Clients, LosesReload(c) PROVE ServerInv'
  <1>1. /\ Connected(c) /\ missed' = missed \cup {c}
        /\ UNCHANGED <<disk, watched, lost, events, pump, cache, live, excused, late>>
    BY DEF LosesReload, files
  <1>2. BrowserOK(c) /\ client[c] \in Browser
    BY DEF ServerInv, Types
  <1>3. /\ client' \in [Clients -> Browser] /\ Connected(c)' /\ client'[c].url = client[c].url
        /\ client'[c].text = client[c].text /\ client'[c].reading = client[c].reading
        /\ \A d \in Clients \ {c} : client'[d] = client[d]
        /\ reloads' \in [Clients -> Nat] /\ \A d \in Clients \ {c} : reloads'[d] = reloads[d]
    <2>1. CASE client' = [client EXCEPT ![c].does = "live"] /\ UNCHANGED reloads
      BY <1>2, <2>1 DEF ServerInv, Types, Browser, Connected
    <2>2. CASE reloads[c] > 0 /\ reloads' = [reloads EXCEPT ![c] = @ - 1] /\ UNCHANGED client
      BY <1>1, <2>2 DEF ServerInv, Types, Connected
    <2> QED
      BY <2>1, <2>2 DEF LosesReload
  <1>4. Types'
    BY <1>1, <1>3 DEF ServerInv, Types, cache, Cached, Registered
  <1>5. BrowserOK(c)'
    BY <1>1, <1>2, <1>3 DEF BrowserOK, Connected, Page, Registered
  <1>6. Informed(c)' /\ Follows(c)'
    BY <1>1 DEF Informed, Follows, Excuse
  <1>7. \A d \in Clients \ {c} : d \in missed' <=> d \in missed
    BY <1>1
  <1> QED
    BY <1>1, <1>3, <1>4, <1>5, <1>6, <1>7, BrowserStep DEF Registered

\* What is written to a connection that has ended concerns nobody, unless the program ends.
LEMMA StrayServer ==
    ASSUME ServerInv, UNCHANGED <<files, pump, cache, client, live, reloads, excused, late, missed>>
    PROVE  ServerInv'
  <1>1. Types' /\ Heard' = Heard
    BY DEF ServerInv, Types, files, cache, Cached, Registered, Heard, Pending, Unheard
  <1> QED
    BY <1>1, FilesStep DEF files

-----------------------------------------------------------------------------
(***************************************************************************)
(* The server.                                                             *)
(***************************************************************************)
LEMMA ServerInit == Init => ServerInv
  <1> SUFFICES ASSUME Init PROVE ServerInv
    OBVIOUS
  <1>1. Cached = {} /\ Registered = {}
    BY EmptyText DEF Init, Cached, Registered
  <1>2. Away \in Browser /\ Away.does = "away" /\ Away.text = <<>> /\ Away.reading = NoFile
    BY EmptyText DEF Away, Browser
  <1>3. disk \in [Files -> Versions]
    BY ServerAssumption DEF Init, Versions
  <1>4. Types
    BY <1>1, <1>2, <1>3 DEF Init, Types
  <1>5. ASSUME NEW c \in Clients PROVE BrowserOK(c) /\ Informed(c) /\ Follows(c)
    BY <1>1, <1>2, EmptyText DEF Init, BrowserOK, Connected, Informed, Follows
  <1> QED
    BY <1>1, <1>4, <1>5 DEF ServerInv

LEMMA ServerStep == ServerInv /\ [Next]_vars => ServerInv'
  <1> SUFFICES ASSUME ServerInv, [Next]_vars PROVE ServerInv'
    OBVIOUS
  <1>1. CASE \E f \in Files : Write(f) \/ Replace(f)
    BY <1>1, WriteServer, ReplaceServer
  <1>2. CASE PumpTakes \/ PumpGetsError \/ Invalidate \/ StrayWrite
    BY <1>2, PumpServer, InvalidateServer, StrayServer DEF StrayWrite
  <1>3. ASSUME NEW c \in Clients,
               \/ \E u \in Visits[c] : Open(c, u)
               \/ Leave(c) \/ Drop(c) \/ Serves(c) \/ Reload(c) \/ LosesReload(c)
        PROVE  ServerInv'
    <2>1. CASE \E u \in Visits[c] : Open(c, u)
      BY <2>1, OpenServer
    <2>2. CASE Leave(c)
      BY <2>2, AwayServer DEF Leave
    <2>3. CASE BuildFails(c)
      BY <2>3, AwayServer DEF BuildFails, Does, Connected
    <2>4. CASE Serves(c) /\ ~BuildFails(c)
      BY <2>4, LookupServer, WatchServer, ReadServer, StoreServer, RegisterServer DEF Serves
    <2> QED
      BY <1>3, <2>1, <2>2, <2>3, <2>4, DropServer, ReloadServer, LosesServer
  <1>4. CASE UNCHANGED vars
    BY <1>4, StrayServer DEF vars, connections
  <1> QED
    BY <1>1, <1>2, <1>3, <1>4 DEF Next, Runs

LEMMA ServerAlways == Spec => []ServerInv
  BY ServerInit, ServerStep, PTL DEF Spec

\* Whatever the files include and however requests, changes and events follow each other, a
\* cached template is older than a file only while the change is on its way, or for one of the
\* known reasons: the invalidation finds the template in the dependencies of the file.
THEOREM StaleAlwaysHasAReason == Spec => []StaleHasAReason
  <1>1. ServerInv => StaleHasAReason
    BY DEF ServerInv, FreshTemplate, Heard, StaleHasAReason
  <1> QED
    BY <1>1, ServerAlways, PTL

\* However many browsers show a page, a change of its files that was handled has a reload on
\* its way to each of them, but for the known reasons: the one that connects after the template
\* left the cache is told when it connects.  It is so though a connection is known by a name that
\* is not that of its URL, nor of one file only.
THEOREM ConnectedAlwaysFollows == Spec => []ConnectedFollows
  <1>1. ServerInv => ConnectedFollows
    BY DEF ServerInv, Types, Follows, Excuse, Heard, ConnectedFollows, Does
  <1> QED
    BY <1>1, ServerAlways, PTL
=============================================================================
