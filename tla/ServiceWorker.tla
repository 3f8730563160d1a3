---------------------------- MODULE ServiceWorker ----------------------------
(***************************************************************************)
(* How a browser loads the website and keeps it (website/src/index.js,     *)
(* serviceWorker.js).  Builds of the site are deployed one after another.  *)
(* index.js of a build calls unregister(), as it does in the repository,   *)
(* or register(), as its comment invites to; a third kind of build is      *)
(* another application at the same address, without service-worker.js.     *)
(*                                                                         *)
(* The registration, its workers and which tabs they control are the       *)
(* browser's.  The worker that the build tool generates takes control of   *)
(* open tabs when it is activated, and waits until no tab is controlled by *)
(* an older one.                                                           *)
(***************************************************************************)
EXTENDS Naturals

CONSTANTS Tabs,         \* tabs of one browser
          MaxVersion    \* bound: builds deployed

ASSUME WebsiteAssumption == MaxVersion \in Nat \ {0}

VARIABLES isLocalhost,  \* which does not change
          kind,         \* what each build is
          site,         \* the build deployed now
          online,
          reg,          \* the registration: its workers, by build, or 0
          tabs

vars == <<isLocalhost, kind, site, online, reg, tabs>>

Versions == 1..MaxVersion
Kinds    == {"register", "unregister", "other"}

NoReg == [active |-> 0, waiting |-> 0, installing |-> 0]

(* page    the build the tab shows, 0 when it is closed                    *)
(* at      where its script is: "load" waits for the load event, "check"   *)
(*         for the answer to fetch(swUrl), "register" for that of          *)
(*         navigator.serviceWorker.register, "ready" and "readyReload" for *)
(*         navigator.serviceWorker.ready, "reload" reloads                 *)
(* ready   the promise navigator.serviceWorker.ready, which resolves when  *)
(*         there is an active worker and stays resolved                    *)
(* ctl     is there a navigator.serviceWorker.controller, and is its       *)
(*         registration the current one?                                   *)
(* hooked  onupdatefound is set on the current registration                *)
(* hears   onstatechange is set on the worker that is being installed      *)
(* notice  the last message shown                                          *)
(* stray   history: the registration was removed under this page           *)

TabStates == [page   : 0..MaxVersion,
              at     : {"load", "check", "register", "ready", "readyReload", "reload", "done"},
              ready  : {"unasked", "pending", "resolved"},
              ctl    : {"none", "current", "former"},
              hooked : BOOLEAN, hears : BOOLEAN,
              notice : {"none", "cached", "update"}, stray : BOOLEAN]

Closed == [page |-> 0, at |-> "done", ready |-> "unasked", ctl |-> "none",
           hooked |-> FALSE, hears |-> FALSE, notice |-> "none", stray |-> FALSE]

TypeOK ==
    /\ isLocalhost \in BOOLEAN /\ kind \in [Versions -> Kinds]
    /\ site \in Versions /\ online \in BOOLEAN
    /\ reg \in [active : 0..site, waiting : 0..site, installing : 0..site]
    /\ tabs \in [Tabs -> TabStates]
    /\ \A t \in Tabs : /\ tabs[t].page = 0 => tabs[t] = Closed
                       /\ tabs[t].hears => tabs[t].hooked /\ reg.installing # 0

Init ==
    /\ isLocalhost \in BOOLEAN
    /\ kind \in [Versions -> Kinds]
    /\ site = 1
    /\ online = TRUE
    /\ reg = NoReg
    /\ tabs = [t \in Tabs |-> Closed]

env == <<isLocalhost, kind, site, online>>

-----------------------------------------------------------------------------
(* The world *)

Deploy ==
    /\ site < MaxVersion
    /\ site' = site + 1
    /\ UNCHANGED <<isLocalhost, kind, online, reg, tabs>>

Connect ==
    /\ online' = ~online
    /\ UNCHANGED <<isLocalhost, kind, site, reg, tabs>>

Close(t) ==
    /\ tabs[t].page # 0
    /\ tabs' = [tabs EXCEPT ![t] = Closed]
    /\ UNCHANGED <<env, reg>>

-----------------------------------------------------------------------------
(* The browser *)

Newest == IF reg.installing # 0 THEN reg.installing
          ELSE IF reg.waiting # 0 THEN reg.waiting ELSE reg.active

Updating(v) == [reg EXCEPT !.installing = v]

\* After a navigation the browser looks for a changed service-worker.js.
SoftUpdate ==
    /\ reg.active # 0 /\ reg.installing = 0 /\ Newest # site
    /\ online /\ kind[site] # "other"
    /\ \E t \in Tabs : tabs[t].ctl = "current"
    /\ reg' = Updating(site)
    /\ tabs' = [t \in Tabs |-> [tabs[t] EXCEPT !.hears = tabs[t].hooked]]
    /\ UNCHANGED env

InstallFails ==
    /\ reg.installing # 0
    /\ reg' = Updating(0)
    /\ tabs' = [t \in Tabs |-> [tabs[t] EXCEPT !.hears = FALSE]]
    /\ UNCHANGED env

CanActivate == /\ reg.waiting # 0
               /\ \A t \in Tabs : tabs[t].ctl # "current"

Activate ==
    /\ CanActivate
    /\ reg' = [reg EXCEPT !.active = reg.waiting, !.waiting = 0]
    /\ tabs' = [t \in Tabs |-> IF tabs[t].page = 0 THEN Closed
                               ELSE [tabs[t] EXCEPT !.ctl = "current"]]
    /\ UNCHANGED env

-----------------------------------------------------------------------------
(* The scripts of a tab *)

\* index.js renders the application and calls register or unregister.
Rendered(v, ctl) ==
    [Closed EXCEPT !.page = v, !.ctl = ctl,
                   !.at = IF kind[v] = "register" THEN "load"
                         ELSE IF kind[v] = "unregister" THEN "ready" ELSE "done",
                   !.ready = IF kind[v] = "unregister" THEN "pending" ELSE "unasked"]

\* A navigation is served by the active worker, or else by the site.
Load(t) ==
    /\ ~CanActivate
    /\ tabs' = [tabs EXCEPT ![t] =
                   IF reg.active # 0 THEN Rendered(reg.active, "current")
                   ELSE IF online THEN Rendered(site, "none") ELSE Closed]
    /\ UNCHANGED <<env, reg>>

Visit(t) == tabs[t].page = 0 /\ Load(t)

\* window.location.reload()
Reload(t) == tabs[t].at = "reload" /\ Load(t)

Goto(t, pc) ==
    /\ tabs' = [tabs EXCEPT ![t].at = pc]
    /\ UNCHANGED <<env, reg>>

\* register: the handler of the load event; on localhost it asks for ready too.
OnLoad(t) ==
    /\ tabs[t].at = "load"
    /\ tabs' = [tabs EXCEPT ![t].at = IF isLocalhost THEN "check" ELSE "register",
                            ![t].ready = IF isLocalhost THEN "pending" ELSE "unasked"]
    /\ UNCHANGED <<env, reg>>

ResolveReady(t) ==
    /\ tabs[t].ready = "pending"
    /\ reg.active # 0
    /\ tabs' = [tabs EXCEPT ![t].ready = "resolved"]
    /\ UNCHANGED <<env, reg>>

\* Mutant: the page is reloaded and the worker kept.
CheckValidNoUnregister(t) ==
    /\ tabs[t].at = "check"
    /\ Goto(t, IF ~online THEN "done"
               ELSE IF kind[site] = "other" THEN "reload" ELSE "register")

\* checkValidServiceWorker: the answer to fetch(swUrl).
CheckValid(t) ==
    /\ tabs[t].at = "check"
    /\ Goto(t, IF ~online THEN "done"
               ELSE IF kind[site] = "other" THEN "readyReload" ELSE "register")

\* Mutant: success is announced when the installation starts.
RegisterValidSWEager(t) ==
    /\ tabs[t].at = "register"
    /\ online /\ kind[site] # "other"
    /\ tabs' = [tabs EXCEPT ![t].at = "done", ![t].hooked = TRUE, ![t].notice = "cached"]
    /\ reg' = IF reg = NoReg THEN Updating(site) ELSE reg
    /\ UNCHANGED env

\* registerValidSW: a registration is found or made; onupdatefound is set
\* before the event of an installation that this call starts, and after that
\* of one under way.
RegisterValidSW(t) ==
    /\ tabs[t].at = "register"
    /\ LET first == reg = NoReg
       IN  IF online /\ kind[site] # "other"
           THEN /\ tabs' = [tabs EXCEPT ![t].at = "done", ![t].hooked = TRUE,
                                        ![t].hears = first]
                /\ reg' = IF first THEN Updating(site) ELSE reg
           ELSE /\ tabs' = [tabs EXCEPT ![t].at = "done"]
                /\ UNCHANGED reg
    /\ UNCHANGED env

\* Mutant: every installation is announced as an update.
NoticeUpdate(s) == "update"

\* onstatechange, state "installed": is there a controller?
Notice(s) == IF s.ctl # "none" THEN "update" ELSE "cached"

Installed ==
    /\ reg.installing # 0
    /\ reg' = [reg EXCEPT !.waiting = reg.installing, !.installing = 0]
    /\ tabs' = [t \in Tabs |-> IF tabs[t].hears
                               THEN [tabs[t] EXCEPT !.hears = FALSE, !.notice = Notice(tabs[t])]
                               ELSE tabs[t]]
    /\ UNCHANGED env

\* navigator.serviceWorker.ready, then registration.unregister(), of unregister
\* and of checkValidServiceWorker.
Unregister(t) ==
    /\ tabs[t].at \in {"ready", "readyReload"}
    /\ tabs[t].ready = "resolved"
    /\ reg' = NoReg
    /\ tabs' = [u \in Tabs |->
          [tabs[u] EXCEPT !.ctl = IF @ = "current" THEN "former" ELSE @,
                          !.hooked = FALSE, !.hears = FALSE,
                          !.stray = @ \/ tabs[u].ctl = "current",
                          !.at = IF u # t THEN @
                                 ELSE IF @ = "ready" THEN "done" ELSE "reload"]]
    /\ UNCHANGED env

-----------------------------------------------------------------------------
Script(t) == \/ OnLoad(t) \/ ResolveReady(t) \/ CheckValid(t) \/ RegisterValidSW(t)
             \/ Unregister(t) \/ Reload(t)

Next ==
    \/ Deploy \/ Connect
    \/ SoftUpdate \/ Installed \/ InstallFails \/ Activate
    \/ \E t \in Tabs : Script(t) \/ Visit(t) \/ Close(t)

Spec == Init /\ [][Next]_vars

\* Scripts run on and the browser activates a worker that may be activated.
Fairness == WF_vars(Activate) /\ \A t \in Tabs : WF_vars(Script(t))

FairSpec == Spec /\ Fairness

-----------------------------------------------------------------------------
(* Properties *)

\* "the updated precached content has been fetched, but the previous service
\* worker will still serve the older content until all client tabs are
\* closed": while the tab that says so is open under this registration, an
\* older worker is active and a newer one waits.  Only a page that lost its
\* registration to another tab and registers afterwards takes the first
\* installation for an update.
UpdateNoticeTrue ==
    \A t \in Tabs : tabs[t].notice = "update" /\ tabs[t].hooked /\ ~tabs[t].stray
                        => reg.active # 0 /\ reg.active < reg.waiting

\* "Content is cached for offline use": the site can be visited offline, or
\* can as soon as the worker is activated.
OfflineNoticeTrue ==
    \A t \in Tabs : tabs[t].notice = "cached" /\ tabs[t].hooked
                        => reg.active # 0 \/ CanActivate

\* No reload loop: whatever was cached, a tab stops reloading itself.
ReloadsEnd == \A t \in Tabs : <>[](tabs[t].at # "reload")

\* "Probably a different app. Reload the page.": a cached page of this
\* application gives way to the other one that is now at this address, even
\* when another tab removed the registration first.
OtherAppShown ==
    \A t \in Tabs :
        (/\ tabs[t].at = "check" /\ tabs[t].ready = "resolved"
         /\ online /\ kind[site] = "other" /\ site = MaxVersion)
        ~> (\/ tabs[t].page \in {0, MaxVersion}
            \/ ~online)
=============================================================================
