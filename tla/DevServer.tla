------------------------------ MODULE DevServer ------------------------------
(***************************************************************************)
(* The development server (cmd/scriggo, serve.go and templatefs.go):       *)
(* requests that build templates outside the lock and cache them, the file *)
(* system that watches every file it reads, the goroutine that takes the   *)
(* events of the watcher, the one that invalidates the cache, the open     *)
(* live reload connections of the browsers, and the goroutines that write  *)
(* to them.                                                                *)
(*                                                                         *)
(* The content of a file is its version; a template is what its build has  *)
(* read, a function from files to versions.  A page that includes others   *)
(* always includes the same ones, and a URL always resolves to the same    *)
(* file.  A connection does not know its file: it is registered by a name  *)
(* that is made from the URL, to be compared with the paths of files       *)
(* without their extension.                                                *)
(***************************************************************************)
EXTENDS Naturals, Sequences, FiniteSets, Functions

CONSTANTS
    Files,     \* the template files
    Includes,  \* for each file, those it extends, imports or renders
    Stem,      \* the path of each file without .html and .md
    Urls,      \* the URLs of pages
    PageOf,    \* the file that each one resolves to
    NameOf,    \* its path without the slash and the extension
    IndexOf,   \* that path with "/index" after it
    Clients,   \* the browsers
    Visits,    \* for each browser, the URLs it requests
    MaxWrites  \* bound: changes to each file

ASSUME ServerAssumption ==
    /\ Includes \in [Files -> SUBSET Files]
    /\ Visits \in [Clients -> SUBSET Urls]
    /\ PageOf \in [Urls -> Files]
    /\ MaxWrites \in Nat
    /\ {"idle", "stuck", "none"} \cap Files = {}

\* resolvePath takes the index of a directory only if no file has the name.
ASSUME NamesAssumption ==
    \A u \in Urls :
        \/ Stem[PageOf[u]] = NameOf[u]
        \/ Stem[PageOf[u]] = IndexOf[u] /\ \A f \in Files : Stem[f] # NameOf[u]

VARIABLES
    disk,       \* the version of each file
    watched,    \* templateFS.watched
    lost,       \* files whose watch the system dropped, with watched unchanged
    events,     \* watcher.Events
    pump,       \* the goroutine of templateFS: "idle", a name it sends, or "stuck"
    templates,  \* srv.templates
    deps,       \* srv.templatesDependencies
    client,     \* what each browser, and the goroutine that serves it, is doing
    live,       \* srv.liveReloads: the registered name of each connected browser
    reloads,    \* for each one, the goroutines about to write a reload
    stray,      \* those about to write to a connection whose handler has returned
    crashed,    \* the program has ended with a panic
    excused,    \* history: cached templates that may be older than their files
    late,       \* history: browsers that were taken to show what is in the cache, and
                \* show an older page, with no event on its way, or that of another file
    missed      \* history: connected browsers that a reload did not reach

cache == <<templates, deps>>
files == <<disk, watched, lost, events>>
connections == <<live, reloads, stray, crashed, missed>>
vars == <<files, pump, cache, client, connections, excused, late>>

NoFile == "none"
NoUrl == "none"

(***************************************************************************)
(* A browser: "away", "asks" (sends a request), "builds", with the files   *)
(* read so far and the one being read, "shows" a page that has not         *)
(* connected yet, "greets" (its handler is about to write a reload), or    *)
(* "live".  url is what it shows or asks for, text what the page was built *)
(* from.                                                                   *)
(***************************************************************************)
Away == [does |-> "away", url |-> NoUrl, text |-> <<>>, reading |-> NoFile]

Page(c) == PageOf[client[c].url]
Cached == DOMAIN templates
Registered == DOMAIN live
Older(text) == {f \in DOMAIN text : text[f] < disk[f]}
Pending == Range(events) \cup {pump}
Outdated(text) == ~(Older(text) \subseteq Pending)

Init ==
    /\ disk = [f \in Files |-> 1]
    /\ watched = {} /\ lost = {} /\ events = <<>> /\ pump = "idle"
    /\ templates = <<>>
    /\ deps = [f \in Files |-> {}]
    /\ client = [c \in Clients |-> Away]
    /\ live = <<>> /\ reloads = [c \in Clients |-> 0] /\ stray = 0 /\ crashed = FALSE
    /\ excused = {} /\ late = {} /\ missed = {}

-----------------------------------------------------------------------------
(***************************************************************************)
(* The files and their watcher.                                            *)
(***************************************************************************)
Writes(f) == disk[f] <= MaxWrites /\ disk' = [disk EXCEPT ![f] = @ + 1]

Write(f) ==
    /\ Writes(f)
    /\ events' = IF f \in watched \ lost THEN Append(events, f) ELSE events
    /\ UNCHANGED <<watched, lost, pump, cache, client, connections, excused, late>>

\* Bound: what the watcher does not tell happens once.
OneFault == lost = {} /\ pump # "stuck"

\* An editor saves a new file over the old one: there is no Write event, and the
\* system stops watching, while watched still has the name.
Replace(f) ==
    /\ f \in watched /\ OneFault /\ Writes(f)
    /\ lost' = {f}
    /\ UNCHANGED <<watched, events, pump, cache, client, connections, excused, late>>

PumpTakes ==
    /\ pump = "idle" /\ events # <<>>
    /\ pump' = Head(events) /\ events' = Tail(events)
    /\ UNCHANGED <<disk, watched, lost, cache, client, connections, excused, late>>

\* The watcher reports an error: Errors is nil, the goroutine blocks for ever.
PumpGetsError ==
    /\ pump = "idle" /\ watched # {} /\ OneFault
    /\ pump' = "stuck"
    /\ UNCHANGED <<files, cache, client, connections, excused, late>>

-----------------------------------------------------------------------------
(***************************************************************************)
(* The invalidation, under the lock.  A changed file that is cached takes  *)
(* only itself away; one that is not takes those that depend on it.        *)
(***************************************************************************)
\* Mutant: only the changed file leaves the cache.
InvalidatesItself(f) == Cached \cap {f}

Invalidated(f) == IF f \in Cached THEN {f} ELSE deps[f]

\* The connections that are registered by the name of one of the files.
Told(out) == {c \in Registered : \E f \in out : Stem[f] = live[c]}

\* Mutant: no reload is written.
InvalidateInSilence ==
    /\ pump \in Files
    /\ templates' = Restrict(templates, Cached \ Invalidated(pump))
    /\ deps' = [f \in Files |-> deps[f] \ Invalidated(pump)]
    /\ excused' = (excused \cup (IF pump \in Cached THEN deps[pump] ELSE {})) \ Invalidated(pump)
    /\ pump' = "idle"
    /\ UNCHANGED <<files, client, connections, late>>

Invalidate ==
    /\ pump \in Files
    /\ LET out == Invalidated(pump)
       IN  /\ templates' = Restrict(templates, Cached \ out)
           /\ deps' = [f \in Files |-> deps[f] \ out]
           /\ reloads' = [c \in Clients |->
                 IF c \in Told(out) THEN reloads[c] + 1 ELSE reloads[c]]
           /\ excused' = (excused \cup (IF pump \in Cached THEN deps[pump] ELSE {})) \ out
    /\ pump' = "idle"
    /\ UNCHANGED <<files, client, live, stray, crashed, missed, late>>

-----------------------------------------------------------------------------
(***************************************************************************)
(* Requests.                                                               *)
(***************************************************************************)
Does(c, what) == client[c].does = what

\* The request of a page.
Asking(u) == [Away EXCEPT !.does = "asks", !.url = u]

Open(c, u) ==
    /\ Does(c, "away")
    /\ client' = [client EXCEPT ![c] = Asking(u)]
    /\ UNCHANGED <<files, pump, cache, connections, excused, late>>

\* serveTemplate looks in the cache, under the lock.
Lookup(c) ==
    /\ Does(c, "asks")
    /\ client' = [client EXCEPT
          ![c].does = IF Page(c) \in Cached THEN "shows" ELSE "builds",
          ![c].text = IF Page(c) \in Cached THEN templates[Page(c)] ELSE <<>>]
    /\ UNCHANGED <<files, pump, cache, connections, excused, late>>

\* The files that the build still has to read: the page, and what it includes.
Missing(c) ==
    LET read == DOMAIN client[c].text
    IN  ({Page(c)} \cup UNION {Includes[f] : f \in read}) \ read

\* recFS records the name, templateFS watches the file, and only then reads it.
Watch(c, f) ==
    /\ Does(c, "builds") /\ client[c].reading = NoFile /\ f \in Missing(c)
    /\ watched' = watched \cup {f}
    /\ client' = [client EXCEPT ![c].reading = f]
    /\ UNCHANGED <<disk, lost, events, pump, cache, connections, excused, late>>

Read(c) ==
    /\ Does(c, "builds") /\ client[c].reading # NoFile
    /\ LET f == client[c].reading
       IN  client' = [client EXCEPT
              ![c].text = [g \in DOMAIN @ \cup {f} |-> IF g = f THEN disk[f] ELSE @[g]],
              ![c].reading = NoFile]
    /\ UNCHANGED <<files, pump, cache, connections, excused, late>>

\* The build fails: the page shows the error and does not connect.
BuildFails(c) ==
    /\ Does(c, "builds") /\ client[c].reading = NoFile /\ DOMAIN client[c].text # {}
    /\ client' = [client EXCEPT ![c] = Away]
    /\ UNCHANGED <<files, pump, cache, connections, excused, late>>

DependsOn(p, text) == [f \in Files |-> IF f \in DOMAIN text THEN deps[f] \cup {p} ELSE deps[f]]

\* The template and its dependencies are stored, under the lock.
Store(c) ==
    /\ Does(c, "builds") /\ client[c].reading = NoFile /\ Missing(c) = {}
    /\ LET p == Page(c)
           text == client[c].text
       IN  /\ templates' = [t \in Cached \cup {p} |-> IF t = p THEN text ELSE templates[t]]
           /\ deps' = DependsOn(p, text)
           /\ excused' = IF Outdated(text) THEN excused \cup {p} ELSE excused \ {p}
           /\ late' = late \cup {d \in Registered : Page(d) = p /\ Outdated(client[d].text)}
    /\ client' = [client EXCEPT ![c].does = "shows"]
    /\ UNCHANGED <<files, pump, connections>>

-----------------------------------------------------------------------------
(***************************************************************************)
(* Live reload.                                                            *)
(***************************************************************************)
\* The name is that of a template in the cache, with one of the two extensions.
Finds(name) == \E t \in Cached : Stem[t] = name

\* Mutant: the name stays that of the directory.
NameOnly(u) == NameOf[u]

\* The name that a connection is registered by, and whether a template was found.
RegisteredName(u) == IF ~Finds(NameOf[u]) /\ Finds(IndexOf[u]) THEN IndexOf[u] ELSE NameOf[u]

InCache(u) == Finds(NameOf[u]) \/ Finds(IndexOf[u])

\* Mutant: the connection is registered and the cache is not looked at.
RegisterOnly(c) ==
    /\ Does(c, "shows")
    /\ client' = [client EXCEPT ![c].does = "live"]
    /\ live' = [d \in Registered \cup {c} |->
                IF d = c THEN RegisteredName(client[c].url) ELSE live[d]]
    /\ UNCHANGED <<files, pump, cache, reloads, stray, crashed, excused, late, missed>>

\* serveLiveReload registers the connection, under the lock, and will write a reload if
\* no template was found.
Register(c) ==
    /\ Does(c, "shows")
    /\ LET u == client[c].url
       IN  /\ live' = [d \in Registered \cup {c} |-> IF d = c THEN RegisteredName(u) ELSE live[d]]
           /\ client' = [client EXCEPT ![c].does = IF InCache(u) THEN "live" ELSE "greets"]
           /\ late' = IF InCache(u) /\ (Page(c) \notin Cached \/ Outdated(client[c].text))
                      THEN late \cup {c} ELSE late
    /\ UNCHANGED <<files, pump, cache, reloads, stray, crashed, excused, missed>>

\* The connection ends and its handler returns.  The goroutines that are about to write
\* to it remain.  An entry of liveReloads does not outlive the connection here.
Ends(c, writing) ==
    /\ live' = Restrict(live, Registered \ {c})
    /\ reloads' = [reloads EXCEPT ![c] = 0]
    /\ stray' = stray + writing
    /\ late' = late \ {c} /\ missed' = missed \ {c}
    /\ UNCHANGED <<files, pump, cache, crashed, excused>>

Connected(c) == client[c].does \in {"greets", "live"}

\* The user leaves the page.
Leave(c) ==
    /\ Connected(c) \/ Does(c, "shows")
    /\ client' = [client EXCEPT ![c] = Away]
    /\ Ends(c, reloads[c])

\* The connection fails; the browser keeps the page and connects again.
Drop(c) ==
    /\ Does(c, "live")
    /\ client' = [client EXCEPT ![c].does = "shows"]
    /\ Ends(c, reloads[c])

\* A reload is written, by the handler or by a goroutine, and the browser gets it: it
\* closes the connection and asks again.
Reload(c) ==
    /\ Connected(c)
    /\ \/ Does(c, "greets") /\ Ends(c, reloads[c])
       \/ reloads[c] > 0 /\ Ends(c, reloads[c] - 1)
    /\ client' = [client EXCEPT ![c] = Asking(client[c].url)]

\* A reload is written and does not arrive: the error, which the WriteTimeout of the server
\* makes certain after ten seconds, is ignored.
LosesReload(c) ==
    /\ Connected(c)
    /\ \/ Does(c, "greets") /\ client' = [client EXCEPT ![c].does = "live"] /\ UNCHANGED reloads
       \/ reloads[c] > 0 /\ reloads' = [reloads EXCEPT ![c] = @ - 1] /\ UNCHANGED client
    /\ missed' = missed \cup {c}
    /\ UNCHANGED <<files, pump, cache, live, stray, crashed, excused, late>>

\* A goroutine writes to a connection whose handler has returned: its buffer is another
\* one's by now, or nobody's, and the program ends.
StrayWrite ==
    /\ stray > 0
    /\ stray' = stray - 1
    /\ crashed' \in BOOLEAN
    /\ UNCHANGED <<files, pump, cache, client, live, reloads, excused, late, missed>>

Serves(c) ==
    \/ Lookup(c) \/ (\E f \in Files : Watch(c, f)) \/ Read(c)
    \/ BuildFails(c) \/ Store(c) \/ Register(c)

\* An action of the program that has not ended.
Runs(action) == ~crashed /\ action

Next ==
    \/ Runs(\/ \E f \in Files : Write(f) \/ Replace(f)
            \/ PumpTakes \/ PumpGetsError \/ Invalidate \/ StrayWrite
            \/ \E c \in Clients :
                  \/ \E u \in Visits[c] : Open(c, u)
                  \/ Leave(c) \/ Drop(c) \/ Serves(c) \/ Reload(c) \/ LosesReload(c))
    \/ crashed /\ UNCHANGED vars

Spec == Init /\ [][Next]_vars

\* The goroutines of the server and the browsers that show a page go on; nobody has to
\* write a file, to open a page or to leave it, and the watcher need not fail.  Reloads may
\* be lost, but not all of them for ever, and net/http ends a connection when a write to it
\* has failed.
FairSpec ==
    /\ Spec
    /\ WF_vars(Runs(PumpTakes)) /\ WF_vars(Runs(Invalidate))
    /\ \A c \in Clients :
          /\ WF_vars(Runs(Serves(c))) /\ WF_vars(Runs(Reload(c) \/ LosesReload(c)))
          /\ SF_vars(Runs(Reload(c)))
          /\ WF_vars(Runs(c \in missed /\ Drop(c)))

-----------------------------------------------------------------------------
(***************************************************************************)
(* Properties.                                                             *)
(***************************************************************************)

\* Files whose changes nobody is told any more.
Unheard == lost \cup (IF pump = "stuck" THEN Files ELSE {})

\* A cached template is older than one of its files only while the event is on its way, or
\* for one of these reasons: the watcher failed, the file was replaced, the event was
\* handled during the build, or the file is a page that was in the cache itself.
StaleHasAReason ==
    \A t \in Cached \ excused : Older(templates[t]) \subseteq Pending \cup Unheard

\* A connected browser shows a page older than its files only for those reasons, or while
\* a reload is on its way, or when one did not arrive, or because the connection was taken
\* for one that shows what is in the cache: the page was built again for another request,
\* or the template that was found is that of another file of the same name.
ConnectedFollows ==
    \A c \in Registered :
        \/ Older(client[c].text) \subseteq Pending \cup Unheard
        \/ reloads[c] > 0 \/ Does(c, "greets")
        \/ c \in late \cup missed \/ Page(c) \in excused

\* A page that is shown does not stay older than its files, not even if reloads are lost,
\* but for those of the reasons above that stay, or if the program has ended.
PagesFollow ==
    \A c \in Clients :
        Older(client[c].text) # {} /\ (Does(c, "shows") \/ Connected(c))
            ~> \/ Older(client[c].text) = {} \/ Does(c, "away")
               \/ c \in late \/ Page(c) \in excused
               \/ Unheard # {} \/ crashed

\* What the help of the command says of a modified file: once the events have been handled
\* no template is older than its files.
RebuiltWhenModified ==
    (events = <<>> /\ pump = "idle" /\ lost = {}
        /\ \A c \in Clients : ~Does(c, "builds"))
    => \A t \in Cached : Older(templates[t]) = {}
=============================================================================
