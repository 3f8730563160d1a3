---------------------------- MODULE WebsiteProofs ----------------------------
(***************************************************************************)
(* Proofs about the website: what a tab announces about the workers of its *)
(* registration (ServiceWorker), and the history and links of a tab        *)
(* (Router), for every number of tabs, of builds and of entries.           *)
(***************************************************************************)
EXTENDS ServiceWorker, Router, SequenceTheorems, TLAPS

-----------------------------------------------------------------------------
(* Notices and workers *)

\* A worker is newer than those that were there when its installation began.
WorkersOrdered(r) ==
    /\ r.waiting # 0 => r.active < r.waiting
    /\ r.installing # 0 => r.active < r.installing /\ r.waiting < r.installing

RegOK(r, v) == /\ r \in [active : 0..v, waiting : 0..v, installing : 0..v]
               /\ WorkersOrdered(r)

\* A closed tab keeps nothing; a handler waits for the installation under way.
TabTyped(s, r) == /\ s.page = 0 => s = Closed
                  /\ s.hears => s.hooked /\ r.installing # 0

\* Handlers are set, and messages shown, at the end of a page's script.
ScriptOver(s) == s.hooked \/ s.notice # "none" => s.at = "done"

\* A controller is the active worker, or one whose registration was removed
\* under the page; an update is announced to a controlled page.
Controlled(s, r) ==
    /\ s.ctl = "current" => r.active # 0
    /\ s.ctl = "former" => s.stray
    /\ s.notice = "update" /\ ~s.stray => s.ctl = "current"

\* What was announced under this registration is still waiting; or, if it was
\* the first worker, it waits or became active.
AnnouncedKept(s, r) ==
    s.hooked => /\ s.notice = "update" /\ ~s.stray => r.waiting # 0
                /\ s.notice = "cached" => r.active # 0 \/ r.waiting # 0

TabOK(s, r) == TabTyped(s, r) /\ ScriptOver(s) /\ Controlled(s, r) /\ AnnouncedKept(s, r)

EnvOK == /\ isLocalhost \in BOOLEAN /\ kind \in [Versions -> Kinds]
         /\ site \in Versions /\ online \in BOOLEAN

TabsOK == \A t \in Tabs : tabs[t] \in TabStates /\ TabOK(tabs[t], reg)

NoticeIInv == EnvOK /\ RegOK(reg, site) /\ tabs = [t \in Tabs |-> tabs[t]] /\ TabsOK

-----------------------------------------------------------------------------
(* What the steps do to one tab *)

LEMMA ClosedOK == ASSUME NEW r PROVE Closed \in TabStates /\ TabOK(Closed, r)
  BY WebsiteAssumption
  DEF Closed, TabStates, TabOK, TabTyped, ScriptOver, Controlled, AnnouncedKept

\* A page that was just rendered: it has announced nothing.
LEMMA RenderedOK ==
    ASSUME NEW r, NEW v \in Versions, NEW c \in {"none", "current"},
           c = "current" => r.active # 0
    PROVE  Rendered(v, c) \in TabStates /\ TabOK(Rendered(v, c), r)
<1> DEFINE z == Rendered(v, c)
<1>1. z \in TabStates
  <2> DEFINE a == IF kind[v] = "register" THEN "load"
                  ELSE IF kind[v] = "unregister" THEN "ready" ELSE "done"
             y == IF kind[v] = "unregister" THEN "pending" ELSE "unasked"
  <2>1. Closed \in TabStates /\ v \in 0..MaxVersion
    BY ClosedOK, WebsiteAssumption DEF Versions
  <2>2. a \in {"load", "ready", "done"} /\ y \in {"unasked", "pending"}
    OBVIOUS
  <2>3. z = [Closed EXCEPT !.page = v, !.ctl = c, !.at = a, !.ready = y]
    BY DEF Rendered
  <2> HIDE DEF a, y, z
  <2> QED
    BY <2>1, <2>2, <2>3 DEF TabStates
<1>2. /\ z.page = v /\ z.ctl = c /\ z.hooked = FALSE /\ z.hears = FALSE
      /\ z.notice = "none" /\ z.stray = FALSE
  BY DEF Rendered, Closed
<1>3. v # 0
  BY WebsiteAssumption DEF Versions
<1> HIDE DEF z
<1>4. TabOK(z, r)
  BY <1>2, <1>3 DEF TabOK, TabTyped, ScriptOver, Controlled, AnnouncedKept
<1> QED
  BY <1>1, <1>4 DEF z

\* A tab of which a page is shown keeps its invariants with what they mention.
LEMMA TabKept ==
    ASSUME NEW r, NEW s \in TabStates, TabOK(s, r), NEW z, NEW q,
           s.page # 0, z.page = s.page, z.ctl = s.ctl, z.stray = s.stray,
           z.notice = s.notice, z.hooked = s.hooked,
           s.at = "done" => z.at = "done",
           \/ z.hears = FALSE
           \/ z.hears = s.hears /\ q.installing = r.installing
           \/ z.hears = s.hooked /\ q.installing # 0,
           q.active = r.active, q.waiting = r.waiting
    PROVE  TabOK(z, q)
  BY DEF TabOK, TabTyped, ScriptOver, Controlled, AnnouncedKept

\* The script of a page that has not come to its end goes on.
LEMMA ScriptGoesOn ==
    ASSUME NEW r, NEW s \in TabStates, TabOK(s, r), s.at # "done",
           NEW a \in {"check", "register", "readyReload", "done"},
           NEW y \in {"unasked", "pending", "resolved"}
    PROVE  /\ [s EXCEPT !.at = a] \in TabStates /\ TabOK([s EXCEPT !.at = a], r)
           /\ [s EXCEPT !.at = a, !.ready = y] \in TabStates
           /\ TabOK([s EXCEPT !.at = a, !.ready = y], r)
<1> DEFINE z == [s EXCEPT !.at = a]
           w == [s EXCEPT !.at = a, !.ready = y]
<1>1. z \in TabStates /\ w \in TabStates
  BY DEF TabStates
<1>2. /\ z.page = s.page /\ z.ctl = s.ctl /\ z.stray = s.stray /\ z.notice = s.notice
      /\ z.hooked = s.hooked /\ z.hears = s.hears
  BY DEF TabStates
<1>3. /\ w.page = s.page /\ w.ctl = s.ctl /\ w.stray = s.stray /\ w.notice = s.notice
      /\ w.hooked = s.hooked /\ w.hears = s.hears
  BY DEF TabStates
<1>4. s.page # 0
  BY DEF TabOK, TabTyped, Closed
<1> HIDE DEF z, w
<1>5. TabOK(z, r)
  BY <1>2, <1>4, TabKept
<1>6. TabOK(w, r)
  BY <1>3, <1>4, TabKept
<1> QED
  BY <1>1, <1>5, <1>6 DEF z, w

LEMMA ReadyResolves ==
    ASSUME NEW r, NEW s \in TabStates, TabOK(s, r), s.ready = "pending"
    PROVE  /\ [s EXCEPT !.ready = "resolved"] \in TabStates
           /\ TabOK([s EXCEPT !.ready = "resolved"], r)
  BY DEF Closed, TabStates, TabOK, TabTyped, ScriptOver, Controlled, AnnouncedKept

\* A closed tab has no handlers.
LEMMA ClosedDeaf == [Closed EXCEPT !.hears = FALSE] = Closed
<1>1. Closed \in TabStates /\ Closed.hears = FALSE
  BY ClosedOK DEF Closed
<1>2. ASSUME NEW s \in TabStates PROVE [s EXCEPT !.hears = s.hears] = s
  BY DEF TabStates
<1> QED
  BY <1>1, <1>2

\* A new installation: handlers hear of it, an old one is forgotten.
LEMMA HearsOK ==
    ASSUME NEW r, NEW s \in TabStates, TabOK(s, r), NEW q, q.installing # 0,
           q.active = r.active, q.waiting = r.waiting
    PROVE  /\ [s EXCEPT !.hears = s.hooked] \in TabStates
           /\ TabOK([s EXCEPT !.hears = s.hooked], q)
<1> DEFINE z == [s EXCEPT !.hears = s.hooked]
<1>1. z \in TabStates
  BY DEF TabStates
<1>2. /\ z.page = s.page /\ z.ctl = s.ctl /\ z.stray = s.stray /\ z.notice = s.notice
      /\ z.hooked = s.hooked /\ z.at = s.at /\ z.hears = s.hooked
  BY DEF TabStates
<1>3. CASE s.page = 0
  <2>1. s = Closed
    BY <1>3 DEF TabOK, TabTyped
  <2>2. s.hooked = FALSE
    BY <2>1 DEF Closed
  <2>3. z = Closed
    BY <2>1, <2>2, ClosedDeaf
  <2> QED
    BY <2>3, ClosedOK
<1>4. CASE s.page # 0
  <2> HIDE DEF z
  <2>1. s.at = "done" => z.at = "done"
    BY <1>2
  <2>2. TabOK(z, q)
    BY <1>2, <1>4, <2>1, TabKept, ZenonT(30)
  <2> QED
    BY <1>1, <2>2 DEF z
<1> QED
  BY <1>3, <1>4

LEMMA DeafOK ==
    ASSUME NEW r, NEW s \in TabStates, TabOK(s, r), NEW q,
           q.active = r.active, q.waiting = r.waiting
    PROVE  /\ [s EXCEPT !.hears = FALSE] \in TabStates
           /\ TabOK([s EXCEPT !.hears = FALSE], q)
<1> DEFINE z == [s EXCEPT !.hears = FALSE]
<1>1. z \in TabStates
  BY DEF TabStates
<1>2. /\ z.page = s.page /\ z.ctl = s.ctl /\ z.stray = s.stray /\ z.notice = s.notice
      /\ z.hooked = s.hooked /\ z.at = s.at /\ z.hears = FALSE
  BY DEF TabStates
<1>3. CASE s.page = 0
  <2>1. z = Closed
    BY <1>3, ClosedDeaf DEF TabOK, TabTyped
  <2> QED
    BY <2>1, ClosedOK
<1>4. CASE s.page # 0
  <2> HIDE DEF z
  <2>1. s.at = "done" => z.at = "done"
    BY <1>2
  <2>2. TabOK(z, q)
    BY <1>2, <1>4, <2>1, TabKept, ZenonT(30)
  <2> QED
    BY <1>1, <2>2 DEF z
<1> QED
  BY <1>3, <1>4

\* registerValidSW: the page has announced nothing, so that nothing it said
\* can be untrue of the registration it finds or makes.
LEMMA RegisteredOK ==
    ASSUME NEW r, NEW s \in TabStates, TabOK(s, r), s.at = "register",
           NEW first \in BOOLEAN, NEW q, q.active = r.active, first => q.installing # 0
    PROVE  LET z == [s EXCEPT !.at = "done", !.hooked = TRUE, !.hears = first]
           IN  z \in TabStates /\ TabOK(z, q)
<1> DEFINE z == [s EXCEPT !.at = "done", !.hooked = TRUE, !.hears = first]
<1>1. z \in TabStates
  BY DEF TabStates
<1>2. /\ z.page = s.page /\ z.ctl = s.ctl /\ z.stray = s.stray /\ z.notice = s.notice
      /\ z.hooked = TRUE /\ z.at = "done" /\ z.hears = first
  BY DEF TabStates
<1>3. s.page # 0
  BY DEF TabOK, TabTyped, Closed
<1>4. s.notice = "none"
  BY DEF TabOK, ScriptOver
<1> HIDE DEF z
<1>5. TabTyped(z, q)
  BY <1>2, <1>3 DEF TabTyped
<1>6. ScriptOver(z) /\ Controlled(z, q) /\ AnnouncedKept(z, q)
  BY <1>2, <1>4 DEF TabOK, ScriptOver, Controlled, AnnouncedKept
<1> QED
  BY <1>1, <1>5, <1>6 DEF TabOK, z

\* onstatechange: an update is announced to a controlled page, which under
\* its own registration is controlled by the active worker.
LEMMA NoticeOK ==
    ASSUME NEW r, NEW s \in TabStates, TabOK(s, r), s.hears = TRUE, NEW q,
           q.active = r.active, q.waiting # 0
    PROVE  LET z == [s EXCEPT !.hears = FALSE, !.notice = Notice(s)]
           IN  z \in TabStates /\ TabOK(z, q)
<1> DEFINE z == [s EXCEPT !.hears = FALSE, !.notice = Notice(s)]
<1>1. z \in TabStates
  BY DEF TabStates, Notice
<1>2. /\ z.page = s.page /\ z.ctl = s.ctl /\ z.stray = s.stray /\ z.notice = Notice(s)
      /\ z.hooked = s.hooked /\ z.at = s.at /\ z.hears = FALSE
  BY DEF TabStates
<1>3. s.page # 0 /\ s.hooked
  BY DEF TabOK, TabTyped, Closed
<1>4. s.at = "done"
  BY <1>3 DEF TabOK, ScriptOver
<1>5. s.ctl \in {"none", "current", "former"}
  BY DEF TabStates
<1> HIDE DEF z
<1>6. TabTyped(z, q) /\ ScriptOver(z)
  BY <1>2, <1>3, <1>4 DEF TabTyped, ScriptOver
<1>7. Controlled(z, q) /\ AnnouncedKept(z, q)
  BY <1>2, <1>5 DEF TabOK, Controlled, AnnouncedKept, Notice
<1> QED
  BY <1>1, <1>6, <1>7 DEF TabOK, z

\* What Installed does not touch in a tab that does not hear of it.
LEMMA WaitingOK ==
    ASSUME NEW r, NEW s \in TabStates, TabOK(s, r), s.hears = FALSE, NEW q,
           q.active = r.active, q.waiting # 0
    PROVE  TabOK(s, q)
  BY DEF TabOK, TabTyped, ScriptOver, Controlled, AnnouncedKept

\* An activation takes control of every page: none of them has announced it
\* as an update that waits.
LEMMA ActivatedOK ==
    ASSUME NEW r, NEW s \in TabStates, TabOK(s, r), s.ctl # "current", s.page # 0,
           NEW q, q.active # 0, q.installing = r.installing
    PROVE  /\ [s EXCEPT !.ctl = "current"] \in TabStates
           /\ TabOK([s EXCEPT !.ctl = "current"], q)
<1> DEFINE z == [s EXCEPT !.ctl = "current"]
<1>1. z \in TabStates
  BY DEF TabStates
<1>2. /\ z.page = s.page /\ z.ctl = "current" /\ z.stray = s.stray /\ z.notice = s.notice
      /\ z.hooked = s.hooked /\ z.at = s.at /\ z.hears = s.hears
  BY DEF TabStates
<1> HIDE DEF z
<1>3. TabTyped(z, q) /\ ScriptOver(z)
  BY <1>2 DEF TabOK, TabTyped, ScriptOver
<1>4. Controlled(z, q) /\ AnnouncedKept(z, q)
  BY <1>2 DEF TabOK, Controlled, AnnouncedKept
<1> QED
  BY <1>1, <1>3, <1>4 DEF TabOK, z

\* The registration is removed: its handlers are gone, and a page it
\* controlled strays.
LEMMA UnregisteredOK ==
    ASSUME NEW r, NEW s \in TabStates, TabOK(s, r), NEW a, NEW q,
           \/ a = s.at
           \/ s.at = "ready" /\ a = "done"
           \/ s.at = "readyReload" /\ a = "reload"
    PROVE  LET z == [s EXCEPT !.ctl = IF s.ctl = "current" THEN "former" ELSE s.ctl,
                              !.hooked = FALSE, !.hears = FALSE,
                              !.stray = s.stray \/ s.ctl = "current", !.at = a]
           IN  z \in TabStates /\ TabOK(z, q)
<1> DEFINE c == IF s.ctl = "current" THEN "former" ELSE s.ctl
           x == s.stray \/ s.ctl = "current"
           z == [s EXCEPT !.ctl = c, !.hooked = FALSE, !.hears = FALSE, !.stray = x, !.at = a]
<1>1. /\ c \in {"none", "former"} /\ x \in BOOLEAN
      /\ a \in {"load", "check", "register", "ready", "readyReload", "reload", "done"}
  BY DEF TabStates
<1>2. /\ c = "former" => x
      /\ x = FALSE => c = s.ctl /\ s.stray = FALSE /\ s.ctl # "current"
  BY DEF TabStates, TabOK, Controlled
<1>3. s.page = 0 => c = "none" /\ x = FALSE /\ a = "done"
  BY DEF TabOK, TabTyped, Closed
<1> HIDE DEF c, x
<1>4. z \in TabStates
  BY <1>1 DEF TabStates
<1>5. /\ z.page = s.page /\ z.ctl = c /\ z.stray = x /\ z.notice = s.notice
      /\ z.hooked = FALSE /\ z.at = a /\ z.hears = FALSE
  BY DEF TabStates
<1>6. s.page = 0 => z = Closed
  <2> SUFFICES ASSUME s.page = 0 PROVE z = Closed
    OBVIOUS
  <2>1. s = Closed /\ s \in TabStates
    BY DEF TabOK, TabTyped
  <2>2. /\ s.ctl = "none" /\ s.hooked = FALSE /\ s.hears = FALSE
        /\ s.stray = FALSE /\ s.at = "done"
    BY <2>1 DEF Closed
  <2>3. c = s.ctl /\ x = s.stray /\ a = s.at
    BY <1>3, <2>2
  <2>4. z = s
    BY <2>1, <2>2, <2>3 DEF TabStates
  <2> QED
    BY <2>1, <2>4
<1> HIDE DEF z
<1>7. TabTyped(z, q)
  BY <1>5, <1>6 DEF TabTyped
<1>8. s.notice # "none" => a = "done"
  BY DEF TabOK, ScriptOver
<1>9. ScriptOver(z) /\ Controlled(z, q) /\ AnnouncedKept(z, q)
  BY <1>1, <1>2, <1>5, <1>8 DEF TabOK, ScriptOver, Controlled, AnnouncedKept
<1> QED
  BY <1>4, <1>7, <1>9 DEF TabOK, z, c, x

-----------------------------------------------------------------------------
(* The steps keep the invariant *)

LEMMA RegTyped ==
    NoticeIInv => /\ site \in Nat /\ 0 \in 0..site
                  /\ reg \in [active : 0..site, waiting : 0..site, installing : 0..site]
  BY WebsiteAssumption DEF NoticeIInv, EnvOK, RegOK, Versions

LEMMA NoticeInit == Init => NoticeIInv
<1> SUFFICES ASSUME Init PROVE NoticeIInv
  OBVIOUS
<1>1. EnvOK
  BY WebsiteAssumption DEF Init, EnvOK, Versions
<1>2. RegOK(reg, site)
  BY DEF Init, NoReg, RegOK, WorkersOrdered
<1>3. tabs = [t \in Tabs |-> Closed]
  BY DEF Init
<1>4. tabs = [t \in Tabs |-> tabs[t]] /\ TabsOK
  BY <1>3, ClosedOK DEF TabsOK
<1> QED
  BY <1>1, <1>2, <1>4 DEF NoticeIInv

\* A step of one tab, by what becomes of that tab.
LEMMA OneTab ==
    ASSUME NoticeIInv, NEW t \in Tabs, NEW z, tabs' = [tabs EXCEPT ![t] = z],
           z \in TabStates, TabOK(z, reg'),
           \A u \in Tabs : TabOK(tabs[u], reg')
    PROVE  (tabs = [u \in Tabs |-> tabs[u]] /\ TabsOK)'
<1>1. \A u \in Tabs : tabs'[u] = IF u = t THEN z ELSE tabs[u]
  BY DEF NoticeIInv
<1>2. tabs' = [u \in Tabs |-> tabs'[u]]
  BY DEF NoticeIInv
<1>3. \A u \in Tabs : tabs'[u] \in TabStates /\ TabOK(tabs'[u], reg')
  BY <1>1 DEF NoticeIInv, TabsOK
<1> QED
  BY <1>2, <1>3 DEF TabsOK

LEMMA EnvKept == NoticeIInv /\ UNCHANGED env => EnvOK'
  BY DEF NoticeIInv, EnvOK, env

LEMMA WorldKeeps == NoticeIInv /\ (Deploy \/ Connect) => NoticeIInv'
<1> SUFFICES ASSUME NoticeIInv, Deploy \/ Connect PROVE NoticeIInv'
  OBVIOUS
<1>1. reg' = reg /\ tabs' = tabs
  BY DEF Deploy, Connect
<1>2. EnvOK' /\ site \in Nat /\ site' \in Nat /\ site <= site'
  <2>1. CASE Deploy
    BY <2>1, WebsiteAssumption DEF NoticeIInv, EnvOK, Deploy, Versions
  <2>2. CASE Connect
    <3>1. online' \in BOOLEAN
      BY <2>2 DEF Connect
    <3>2. site' = site /\ kind' = kind /\ isLocalhost' = isLocalhost
      BY <2>2 DEF Connect
    <3> QED
      BY <3>1, <3>2, WebsiteAssumption DEF NoticeIInv, EnvOK, Versions
  <2> QED
    BY <2>1, <2>2
<1>3. RegOK(reg, site')
  BY <1>2 DEF NoticeIInv, RegOK
<1>4. RegOK(reg, site)'
  BY <1>1, <1>3
<1>5. (tabs = [t \in Tabs |-> tabs[t]] /\ TabsOK)'
  BY <1>1 DEF NoticeIInv, TabsOK
<1> QED
  BY <1>2, <1>4, <1>5 DEF NoticeIInv

\* The steps that leave the registration alone.
LEMMA OneTabKeeps ==
    ASSUME NoticeIInv, NEW t \in Tabs, NEW z, tabs' = [tabs EXCEPT ![t] = z],
           z \in TabStates, TabOK(z, reg), UNCHANGED <<env, reg>>
    PROVE  NoticeIInv'
<1>1. EnvOK'
  BY EnvKept
<1>2. reg' = reg /\ site' = site
  BY DEF env
<1>3. RegOK(reg', site')
  BY <1>2 DEF NoticeIInv
<1>4. TabOK(z, reg') /\ \A u \in Tabs : TabOK(tabs[u], reg')
  BY <1>2 DEF NoticeIInv, TabsOK
<1>5. (tabs = [u \in Tabs |-> tabs[u]] /\ TabsOK)'
  BY <1>4, OneTab
<1> QED
  BY <1>1, <1>3, <1>5 DEF NoticeIInv

LEMMA CloseKeeps == ASSUME NoticeIInv, NEW t \in Tabs, Close(t) PROVE NoticeIInv'
  BY ClosedOK, OneTabKeeps DEF Close

LEMMA LoadKeeps == ASSUME NoticeIInv, NEW t \in Tabs, Load(t) PROVE NoticeIInv'
<1> DEFINE z == IF reg.active # 0 THEN Rendered(reg.active, "current")
                ELSE IF online THEN Rendered(site, "none") ELSE Closed
<1>1. tabs' = [tabs EXCEPT ![t] = z] /\ UNCHANGED <<env, reg>>
  BY DEF Load
<1>2. reg.active # 0 => reg.active \in Versions
  BY WebsiteAssumption DEF NoticeIInv, EnvOK, RegOK, Versions
<1>3. site \in Versions
  BY DEF NoticeIInv, EnvOK
<1>4. z \in TabStates /\ TabOK(z, reg)
  <2>1. CASE reg.active # 0
    BY <1>2, <2>1, RenderedOK
  <2>2. CASE reg.active = 0 /\ online
    BY <1>3, <2>2, RenderedOK
  <2>3. CASE reg.active = 0 /\ ~online
    BY <2>3, ClosedOK
  <2> QED
    BY <2>1, <2>2, <2>3
<1> HIDE DEF z
<1> QED
  BY <1>1, <1>4, OneTabKeeps

LEMMA ScriptKeeps ==
    ASSUME NoticeIInv, NEW t \in Tabs, OnLoad(t) \/ ResolveReady(t) \/ CheckValid(t)
    PROVE  NoticeIInv'
<1>0. tabs[t] \in TabStates /\ TabOK(tabs[t], reg) /\ UNCHANGED <<env, reg>>
  BY DEF NoticeIInv, TabsOK, OnLoad, ResolveReady, CheckValid, Goto
<1>1. CASE OnLoad(t)
  <2> DEFINE a == IF isLocalhost THEN "check" ELSE "register"
             y == IF isLocalhost THEN "pending" ELSE "unasked"
             z == [tabs[t] EXCEPT !.at = a, !.ready = y]
  <2>1. tabs' = [tabs EXCEPT ![t] = z] /\ tabs[t].at # "done"
    BY <1>1 DEF OnLoad, NoticeIInv
  <2>2. a \in {"check", "register", "readyReload", "done"} /\ y \in {"unasked", "pending", "resolved"}
    OBVIOUS
  <2> HIDE DEF a, y
  <2>3. z \in TabStates /\ TabOK(z, reg)
    BY <1>0, <2>1, <2>2, ScriptGoesOn
  <2> HIDE DEF z
  <2> QED
    BY <1>0, <2>1, <2>3, OneTabKeeps
<1>2. CASE ResolveReady(t)
  <2> DEFINE z == [tabs[t] EXCEPT !.ready = "resolved"]
  <2>1. tabs' = [tabs EXCEPT ![t] = z] /\ tabs[t].ready = "pending"
    BY <1>2 DEF ResolveReady
  <2>2. z \in TabStates /\ TabOK(z, reg)
    BY <1>0, <2>1, ReadyResolves
  <2> HIDE DEF z
  <2> QED
    BY <1>0, <2>1, <2>2, OneTabKeeps
<1>3. CASE CheckValid(t)
  <2> DEFINE a == IF ~online THEN "done"
                  ELSE IF kind[site] = "other" THEN "readyReload" ELSE "register"
             z == [tabs[t] EXCEPT !.at = a]
  <2>1. tabs' = [tabs EXCEPT ![t] = z] /\ tabs[t].at # "done"
    BY <1>3 DEF CheckValid, Goto
  <2>2. a \in {"check", "register", "readyReload", "done"}
    OBVIOUS
  <2> HIDE DEF a
  <2>3. z \in TabStates /\ TabOK(z, reg)
    BY <1>0, <2>1, <2>2, ScriptGoesOn
  <2> HIDE DEF z
  <2> QED
    BY <1>0, <2>1, <2>3, OneTabKeeps
<1> QED
  BY <1>1, <1>2, <1>3

LEMMA RegisterKeeps ==
    ASSUME NoticeIInv, NEW t \in Tabs, RegisterValidSW(t) PROVE NoticeIInv'
<1> DEFINE first == reg = NoReg
<1>1. /\ tabs[t] \in TabStates /\ TabOK(tabs[t], reg) /\ tabs[t].at = "register"
      /\ UNCHANGED env /\ site' = site
  BY DEF NoticeIInv, TabsOK, RegisterValidSW, env
<1>2. CASE online /\ kind[site] # "other"
  <2> DEFINE z == [tabs[t] EXCEPT !.at = "done", !.hooked = TRUE, !.hears = first]
  <2>1. tabs' = [tabs EXCEPT ![t] = z]
    BY <1>2 DEF RegisterValidSW
  <2>2. reg' = IF first THEN Updating(site) ELSE reg
    BY <1>2 DEF RegisterValidSW
  <2>3. /\ reg'.active = reg.active /\ reg'.waiting = reg.waiting
        /\ first => reg'.installing # 0
        /\ ~first => reg' = reg
        /\ RegOK(reg', site)
    BY <2>2, WebsiteAssumption
    DEF NoticeIInv, EnvOK, RegOK, WorkersOrdered, Updating, NoReg, Versions
  <2>4. z \in TabStates /\ TabOK(z, reg')
    <3>1. first \in BOOLEAN
      OBVIOUS
    <3> HIDE DEF first
    <3> QED
      BY <1>1, <2>3, <3>1, RegisteredOK, ZenonT(30)
  <2>5. ASSUME NEW u \in Tabs PROVE TabOK(tabs[u], reg')
    <3>1. TabOK(tabs[u], reg)
      BY DEF NoticeIInv, TabsOK
    <3>2. CASE first
      BY <3>1, <3>2, <2>3
      DEF TabOK, TabTyped, ScriptOver, Controlled, AnnouncedKept, NoReg
    <3>3. CASE ~first
      BY <3>1, <3>3, <2>3
    <3> QED
      BY <3>2, <3>3
  <2> HIDE DEF z
  <2>6. (tabs = [u \in Tabs |-> tabs[u]] /\ TabsOK)'
    BY <2>1, <2>4, <2>5, OneTab
  <2> QED
    BY <1>1, <2>3, <2>6, EnvKept DEF NoticeIInv
<1>3. CASE ~(online /\ kind[site] # "other")
  <2> DEFINE z == [tabs[t] EXCEPT !.at = "done"]
  <2>1. tabs' = [tabs EXCEPT ![t] = z] /\ reg' = reg
    BY <1>3 DEF RegisterValidSW
  <2>2. z \in TabStates /\ TabOK(z, reg)
    BY <1>1, ScriptGoesOn
  <2> HIDE DEF z
  <2> QED
    BY <1>1, <2>1, <2>2, OneTabKeeps
<1> QED
  BY <1>2, <1>3

LEMMA SoftUpdateKeeps == ASSUME NoticeIInv, SoftUpdate PROVE NoticeIInv'
<1>1. /\ reg' = Updating(site) /\ UNCHANGED env /\ site' = site
      /\ tabs' = [t \in Tabs |-> [tabs[t] EXCEPT !.hears = tabs[t].hooked]]
  BY DEF SoftUpdate, env
<1>2. /\ reg'.active = reg.active /\ reg'.waiting = reg.waiting /\ reg'.installing = site
      /\ site # 0
  BY <1>1, WebsiteAssumption DEF NoticeIInv, EnvOK, RegOK, Updating, Versions
<1>3. reg' \in [active : 0..site, waiting : 0..site, installing : 0..site]
  BY <1>1, WebsiteAssumption DEF NoticeIInv, EnvOK, RegOK, Updating, Versions
<1>4. reg.active < site /\ reg.waiting < site
  BY WebsiteAssumption
  DEF SoftUpdate, Newest, NoticeIInv, EnvOK, RegOK, WorkersOrdered, Versions
<1>5. RegOK(reg', site)
  BY <1>2, <1>3, <1>4 DEF NoticeIInv, RegOK, WorkersOrdered
<1>6. \A u \in Tabs : /\ [tabs[u] EXCEPT !.hears = tabs[u].hooked] \in TabStates
                      /\ TabOK([tabs[u] EXCEPT !.hears = tabs[u].hooked], reg')
  BY <1>2, HearsOK DEF NoticeIInv, TabsOK
<1>7. tabs' = [u \in Tabs |-> tabs'[u]] /\ TabsOK'
  BY <1>1, <1>6 DEF TabsOK
<1> QED
  BY <1>1, <1>5, <1>7, EnvKept DEF NoticeIInv

LEMMA InstallFailsKeeps == ASSUME NoticeIInv, InstallFails PROVE NoticeIInv'
<1>1. /\ reg' = Updating(0) /\ UNCHANGED env /\ site' = site
      /\ tabs' = [t \in Tabs |-> [tabs[t] EXCEPT !.hears = FALSE]]
  BY DEF InstallFails, env
<1>2. reg'.active = reg.active /\ reg'.waiting = reg.waiting /\ reg'.installing = 0
  BY <1>1 DEF NoticeIInv, RegOK, Updating
<1>3. reg' \in [active : 0..site, waiting : 0..site, installing : 0..site]
  BY <1>1, WebsiteAssumption DEF NoticeIInv, EnvOK, RegOK, Updating, Versions
<1>4. RegOK(reg', site)
  BY <1>2, <1>3 DEF NoticeIInv, RegOK, WorkersOrdered
<1>5. \A u \in Tabs : /\ [tabs[u] EXCEPT !.hears = FALSE] \in TabStates
                      /\ TabOK([tabs[u] EXCEPT !.hears = FALSE], reg')
  BY <1>2, DeafOK DEF NoticeIInv, TabsOK
<1>6. tabs' = [u \in Tabs |-> tabs'[u]] /\ TabsOK'
  BY <1>1, <1>5 DEF TabsOK
<1> QED
  BY <1>1, <1>4, <1>6, EnvKept DEF NoticeIInv

LEMMA InstalledKeeps == ASSUME NoticeIInv, Installed PROVE NoticeIInv'
<1> DEFINE told(t) == [tabs[t] EXCEPT !.hears = FALSE, !.notice = Notice(tabs[t])]
<1>1. /\ reg' = [reg EXCEPT !.waiting = reg.installing, !.installing = 0]
      /\ reg.installing # 0 /\ UNCHANGED env /\ site' = site
      /\ tabs' = [t \in Tabs |-> IF tabs[t].hears THEN told(t) ELSE tabs[t]]
  BY DEF Installed, env
<1>2. /\ reg'.active = reg.active /\ reg'.waiting = reg.installing /\ reg'.installing = 0
      /\ reg' \in [active : 0..site, waiting : 0..site, installing : 0..site]
  BY <1>1, RegTyped
<1>3. RegOK(reg', site)
  BY <1>1, <1>2 DEF NoticeIInv, RegOK, WorkersOrdered
<1>4. ASSUME NEW u \in Tabs
      PROVE  tabs'[u] \in TabStates /\ TabOK(tabs'[u], reg')
  <2>1. tabs[u] \in TabStates /\ TabOK(tabs[u], reg)
    BY DEF NoticeIInv, TabsOK
  <2>2. tabs[u].hears \in BOOLEAN
    BY <2>1 DEF TabStates
  <2>3. CASE tabs[u].hears = TRUE
    BY <1>1, <1>2, <2>1, <2>3, NoticeOK
  <2>4. CASE tabs[u].hears = FALSE
    BY <1>1, <1>2, <2>1, <2>4, WaitingOK
  <2> QED
    BY <2>2, <2>3, <2>4
<1>5. tabs' = [u \in Tabs |-> tabs'[u]]
  BY <1>1
<1> QED
  BY <1>1, <1>3, <1>4, <1>5, EnvKept DEF NoticeIInv, TabsOK

LEMMA ActivateKeeps == ASSUME NoticeIInv, Activate PROVE NoticeIInv'
<1>1. /\ reg' = [reg EXCEPT !.active = reg.waiting, !.waiting = 0]
      /\ reg.waiting # 0 /\ UNCHANGED env /\ site' = site
      /\ \A t \in Tabs : tabs[t].ctl # "current"
      /\ tabs' = [t \in Tabs |-> IF tabs[t].page = 0 THEN Closed
                                 ELSE [tabs[t] EXCEPT !.ctl = "current"]]
  BY DEF Activate, CanActivate, env
<1>2. /\ reg'.active = reg.waiting /\ reg'.waiting = 0 /\ reg'.installing = reg.installing
      /\ reg' \in [active : 0..site, waiting : 0..site, installing : 0..site]
  BY <1>1, RegTyped
<1>3. RegOK(reg', site)
  BY <1>1, <1>2, WebsiteAssumption DEF NoticeIInv, EnvOK, Versions, RegOK, WorkersOrdered
<1>4. ASSUME NEW u \in Tabs
      PROVE  tabs'[u] \in TabStates /\ TabOK(tabs'[u], reg')
  <2>1. tabs[u] \in TabStates /\ TabOK(tabs[u], reg)
    BY DEF NoticeIInv, TabsOK
  <2>2. CASE tabs[u].page = 0
    BY <1>1, <2>2, ClosedOK
  <2>3. CASE tabs[u].page # 0
    BY <1>1, <1>2, <2>1, <2>3, ActivatedOK
  <2> QED
    BY <2>2, <2>3
<1>5. tabs' = [u \in Tabs |-> tabs'[u]]
  BY <1>1
<1> QED
  BY <1>1, <1>3, <1>4, <1>5, EnvKept DEF NoticeIInv, TabsOK

LEMMA UnregisterKeeps ==
    ASSUME NoticeIInv, NEW t \in Tabs, Unregister(t) PROVE NoticeIInv'
<1> DEFINE a(u) == IF u # t THEN tabs[u].at
                   ELSE IF tabs[u].at = "ready" THEN "done" ELSE "reload"
<1>1. /\ reg' = NoReg /\ UNCHANGED env /\ tabs[t].at \in {"ready", "readyReload"}
      /\ tabs' = [u \in Tabs |->
            [tabs[u] EXCEPT !.ctl = IF tabs[u].ctl = "current" THEN "former" ELSE tabs[u].ctl,
                            !.hooked = FALSE, !.hears = FALSE,
                            !.stray = tabs[u].stray \/ tabs[u].ctl = "current",
                            !.at = a(u)]]
  BY DEF Unregister
<1>2. RegOK(NoReg, site)
  BY RegTyped DEF RegOK, WorkersOrdered, NoReg
<1>3. ASSUME NEW u \in Tabs
      PROVE  tabs'[u] \in TabStates /\ TabOK(tabs'[u], reg')
  <2>1. tabs[u] \in TabStates /\ TabOK(tabs[u], reg)
    BY DEF NoticeIInv, TabsOK
  <2>2. \/ a(u) = tabs[u].at
        \/ tabs[u].at = "ready" /\ a(u) = "done"
        \/ tabs[u].at = "readyReload" /\ a(u) = "reload"
    BY <1>1
  <2> HIDE DEF a
  <2> QED
    BY <1>1, <2>1, <2>2, UnregisteredOK
<1>4. tabs' = [u \in Tabs |-> tabs'[u]]
  BY <1>1
<1>5. RegOK(reg', site')
  BY <1>1, <1>2 DEF env
<1> QED
  BY <1>1, <1>3, <1>4, <1>5, EnvKept DEF NoticeIInv, TabsOK

LEMMA NoticeStep == ASSUME NoticeIInv, [Next]_vars PROVE NoticeIInv'
<1>1. CASE Deploy \/ Connect
  BY <1>1, WorldKeeps
<1>2. CASE SoftUpdate
  BY <1>2, SoftUpdateKeeps
<1>3. CASE Installed
  BY <1>3, InstalledKeeps
<1>4. CASE InstallFails
  BY <1>4, InstallFailsKeeps
<1>5. CASE Activate
  BY <1>5, ActivateKeeps
<1>6. ASSUME NEW t \in Tabs, Script(t) \/ Visit(t) \/ Close(t) PROVE NoticeIInv'
  BY <1>6, ScriptKeeps, RegisterKeeps, UnregisterKeeps, LoadKeeps, CloseKeeps
  DEF Script, Visit, Reload
<1>7. CASE UNCHANGED vars
  <2>1. reg' = reg /\ tabs' = tabs /\ UNCHANGED env
    BY <1>7 DEF vars, env
  <2> QED
    BY <2>1, EnvKept DEF NoticeIInv, TabsOK, env
<1> QED
  BY <1>1, <1>2, <1>3, <1>4, <1>5, <1>6, <1>7 DEF Next

LEMMA NoticeInvariant == Spec => []NoticeIInv
  BY NoticeInit, NoticeStep, PTL DEF Spec

\* The state of the browser and of every tab's script is well formed: a closed
\* tab has kept nothing, and a handler that waits for a worker to be installed
\* waits for the installation under way.
THEOREM WebsiteType == Spec => []TypeOK
<1>1. NoticeIInv => TypeOK
  BY DEF NoticeIInv, EnvOK, RegOK, TabsOK, TabOK, TabTyped, TypeOK
<1> QED
  BY <1>1, NoticeInvariant, PTL

\* The message of registerValidSW that new content waits until all tabs are
\* closed is true as long as it is shown, in every tab, whatever other tabs do,
\* unless the registration was removed under the page.
THEOREM UpdateNoticeIsTrue == Spec => []UpdateNoticeTrue
<1>1. NoticeIInv => UpdateNoticeTrue
  BY DEF NoticeIInv, TabsOK, TabOK, Controlled, AnnouncedKept, RegOK, WorkersOrdered, UpdateNoticeTrue
<1> QED
  BY <1>1, NoticeInvariant, PTL

\* The message of registerValidSW that content is cached for offline use is
\* true as long as it is shown: there is an active worker, or one that nothing
\* keeps from being activated.
THEOREM OfflineNoticeIsTrue == Spec => []OfflineNoticeTrue
<1>1. NoticeIInv => OfflineNoticeTrue
  BY DEF NoticeIInv, TabsOK, TabOK, Controlled, AnnouncedKept, OfflineNoticeTrue, CanActivate
<1> QED
  BY <1>1, NoticeInvariant, PTL

-----------------------------------------------------------------------------
(* Routes, links and the history of a tab *)

Paths == Seq(Segments)

\* Short paths, and what appending a segment makes of them.
LEMMA ShortPaths ==
    ASSUME NEW S, NEW a \in S, NEW b \in S, NEW c \in S
    PROVE  << >> \in Seq(S) /\ <<a>> \in Seq(S) /\ <<a, b>> \in Seq(S) /\ <<a, b, c>> \in Seq(S)
  OBVIOUS

LEMMA LongerPath == ASSUME NEW S, NEW s \in Seq(S), NEW a \in S PROVE Append(s, a) \in Seq(S)
  OBVIOUS

\* Paths of different length, or with different segments, are different.
LEMMA DifferentPaths ==
    /\ \A a, b, c, d : <<a, b>> = <<c, d>> <=> a = c /\ b = d
    /\ \A a, b : << >> # <<a, b>>
    /\ \A a, b, c : << >> # <<a, b, c>>
    /\ \A a, b, c : <<a>> # <<b, c>>
    /\ \A a, b, c, d : <<a>> # <<b, c, d>>
    /\ \A a, b, c, d, e : <<a, b>> # <<c, d, e>>
    /\ \A a, b, c, d, e, f : <<a, b, c>> = <<d, e, f>> <=> a = d /\ b = e /\ c = f
  OBVIOUS

LEMMA AppendToNone == ASSUME NEW a PROVE Append(<< >>, a) = <<a>>
<1> DEFINE s == Append(<< >>, a)
           t == <<a>>
           S == {a}
<1>1. s \in Seq(S) /\ t \in Seq(S) /\ Len(s) = 1 /\ Len(t) = 1 /\ s[1] = a /\ t[1] = a
  OBVIOUS
<1> HIDE DEF s, t, S
<1>2. \A i \in 1..Len(s) : s[i] = t[i]
  BY <1>1
<1> QED
  BY <1>1, <1>2, SeqEqual DEF s, t

LEMMA AppendToOne == ASSUME NEW a, NEW b PROVE Append(<<a>>, b) = <<a, b>>
<1> DEFINE s == Append(<<a>>, b)
           t == <<a, b>>
           S == {a, b}
<1>1. s \in Seq(S) /\ t \in Seq(S) /\ Len(s) = 2 /\ Len(t) = 2
  OBVIOUS
<1>2. s[1] = a /\ s[2] = b /\ t[1] = a /\ t[2] = b
  OBVIOUS
<1> HIDE DEF s, t, S
<1>3. \A i \in 1..Len(s) : s[i] = t[i]
  BY <1>1, <1>2
<1> QED
  BY <1>1, <1>3, SeqEqual DEF s, t

LEMMA AppendToTwo == ASSUME NEW a, NEW b, NEW c PROVE Append(<<a, b>>, c) = <<a, b, c>>
<1> DEFINE s == Append(<<a, b>>, c)
           t == <<a, b, c>>
           S == {a, b, c}
<1>1. s \in Seq(S) /\ t \in Seq(S) /\ Len(s) = 3 /\ Len(t) = 3
  OBVIOUS
<1>2. s[1] = a /\ s[2] = b /\ s[3] = c /\ t[1] = a /\ t[2] = b /\ t[3] = c
  OBVIOUS
<1> HIDE DEF s, t, S
<1>3. \A i \in 1..Len(s) : s[i] = t[i]
  BY <1>1, <1>2
<1> QED
  BY <1>1, <1>3, SeqEqual DEF s, t

LEMMA SegmentsTyped ==
    /\ GetStarted \in Segments /\ Unknown \in Segments /\ "" \in Segments
    /\ "introduction" \in routes
    /\ \A r \in routes : r \in Segments
  BY DEF Segments, routes, GetStarted

LEMMA SlashedPath == ASSUME NEW p \in Paths PROVE Slashed(p) \in Paths
  BY SegmentsTyped, LongerPath DEF Paths, Slashed

LEMMA TypedPaths == Typed \subseteq Paths
<1>1. /\ << >> \in Paths /\ <<GetStarted>> \in Paths /\ <<Unknown>> \in Paths
      /\ <<GetStarted, Unknown>> \in Paths
  BY SegmentsTyped, ShortPaths DEF Paths
<1>2. \A r \in routes : <<GetStarted, r>> \in Paths /\ <<GetStarted, r, Unknown>> \in Paths
  BY SegmentsTyped, ShortPaths DEF Paths
<1> QED
  BY <1>1, <1>2, SlashedPath DEF Typed

LEMMA LinksTyped ==
    ASSUME NEW path \in Paths, NEW link \in Links(path) PROVE link.to \in Paths
<1>1. << >> \in Paths /\ <<GetStarted>> \in Paths
  BY SegmentsTyped, ShortPaths DEF Paths
<1>2. MatchUrl(<<GetStarted>>, path) \in Paths
  BY <1>1 DEF MatchUrl
<1>3. \A r \in routes : Append(MatchUrl(<<GetStarted>>, path), r) \in Paths
  BY <1>2, SegmentsTyped, LongerPath DEF Paths
<1>4. CASE link \in NavLinks
  BY <1>1, <1>4 DEF NavLinks
<1>5. CASE link \in Sidebar(path)
  <2>1. PICK r \in routes :
            link = [to |-> Append(MatchUrl(<<GetStarted>>, path), r), label |-> r]
    BY <1>5 DEF Sidebar
  <2> QED
    BY <1>3, <2>1
<1> QED
  BY <1>4, <1>5 DEF Links

\* What a push leaves of the history: the entries up to the current one.
LEMMA PushDoes ==
    ASSUME RouterTypeOK, NEW path \in Paths, Push(path)
    PROVE  /\ RouterTypeOK'
           /\ Len(hist') = at + 1 /\ at' = at + 1
           /\ \A i \in 1..at : hist'[i] = hist[i]
<1>1. /\ hist' = Append(SubSeq(hist, 1, at), path) /\ at' = at + 1 /\ at < MaxHistory
      /\ hist \in Seq(Paths) /\ at \in Nat /\ at >= 1 /\ at <= Len(hist)
  BY DEF Push, RouterTypeOK, Paths
<1> DEFINE h == SubSeq(hist, 1, at)
<1>2. h \in Seq(Paths) /\ Len(h) = at /\ \A i \in 1..at : h[i] = hist[i]
  BY <1>1
<1> HIDE DEF h
<1>3. hist' = Append(h, path)
  BY <1>1 DEF h
<1>4. hist' \in Seq(Paths) /\ Len(hist') = at + 1
  BY <1>1, <1>2, <1>3
<1>5. \A i \in 1..at : hist'[i] = h[i]
  BY <1>1, <1>2, <1>3
<1>6. at' \in 1..Len(hist') /\ Len(hist') <= MaxHistory
  BY <1>1, <1>4, RouterAssumption
<1> QED
  BY <1>1, <1>2, <1>4, <1>5, <1>6 DEF RouterTypeOK, Paths

\* A page to which the reader goes by a click or by typing is pushed.
LEMMA Pushed ==
    ASSUME RouterTypeOK, Click \/ Type PROVE Calm /\ \E path \in Paths : Push(path)
<1>1. Path \in Paths
  BY DEF RouterTypeOK, Path, Paths
<1>2. CASE Click
  BY <1>1, <1>2, LinksTyped DEF Click
<1>3. CASE Type
  BY <1>3, TypedPaths DEF Type
<1> QED
  BY <1>2, <1>3

\* What a redirect leaves of the history: everything but the current entry.
LEMMA RedirectDoes ==
    ASSUME RouterTypeOK, Redirect
    PROVE  /\ RouterTypeOK' /\ at' = at /\ Len(hist') = Len(hist)
           /\ \A i \in 1..Len(hist) : i # at => hist'[i] = hist[i]
<1> DEFINE p == <<GetStarted, "introduction">>
<1>1. p \in Paths
  BY SegmentsTyped, ShortPaths DEF Paths
<1> HIDE DEF p
<1>2. hist' = [hist EXCEPT ![at] = p] /\ at' = at
  BY DEF Redirect, p
<1>3. hist \in Seq(Paths) /\ at \in 1..Len(hist) /\ Len(hist) <= MaxHistory
  BY DEF RouterTypeOK, Paths
<1>4. /\ hist' \in Seq(Paths) /\ Len(hist') = Len(hist)
      /\ \A i \in 1..Len(hist) : hist'[i] = IF i = at THEN p ELSE hist[i]
  BY <1>1, <1>2, <1>3, ExceptSeq
<1> QED
  BY <1>2, <1>3, <1>4 DEF RouterTypeOK, Paths

RouterIInv == RouterTypeOK /\ NoTrap

LEMMA RouterInitially == RouterInit => RouterIInv
<1> SUFFICES ASSUME RouterInit PROVE RouterIInv
  OBVIOUS
<1>1. PICK path \in Typed : hist = <<path>>
  BY DEF RouterInit
<1>2. hist \in Seq(Paths) /\ Len(hist) = 1 /\ at = 1
  BY <1>1, TypedPaths DEF RouterInit
<1> QED
  BY <1>2, RouterAssumption DEF RouterIInv, RouterTypeOK, NoTrap, Paths

LEMMA RouterStep == ASSUME RouterIInv, [RouterNext]_routerVars PROVE RouterIInv'
<1>0. RouterTypeOK /\ \A i \in 1..Len(hist) : Redirects(hist[i]) => i = at
  BY DEF RouterIInv, NoTrap
<1>1. CASE Click \/ Type
  <2>1. PICK path \in Paths : Push(path)
    BY <1>0, <1>1, Pushed
  <2>2. Calm
    BY <1>0, <1>1, Pushed
  <2>3. /\ RouterTypeOK' /\ Len(hist') = at + 1 /\ at' = at + 1
        /\ \A i \in 1..at : hist'[i] = hist[i]
    BY <1>0, <2>1, PushDoes
  <2>4. \A i \in 1..at : ~Redirects(hist[i])
    BY <1>0, <2>2 DEF Calm, Path, RouterTypeOK
  <2>5. at \in Nat
    BY <1>0 DEF RouterTypeOK
  <2>6. \A i \in 1..Len(hist') : Redirects(hist'[i]) => i = at'
    BY <2>3, <2>4, <2>5
  <2> QED
    BY <2>3, <2>6 DEF RouterIInv, NoTrap
<1>2. CASE Go
  <2>1. hist' = hist /\ at' \in 1..Len(hist)
    BY <1>2 DEF Go
  <2>2. \A i \in 1..Len(hist) : ~Redirects(hist[i])
    BY <1>0, <1>2 DEF Go, Calm, Path
  <2>3. \A i \in 1..Len(hist') : Redirects(hist'[i]) => i = at'
    BY <2>1, <2>2
  <2> QED
    BY <1>0, <2>1, <2>3 DEF RouterIInv, RouterTypeOK, NoTrap
<1>3. CASE Redirect
  <2>1. /\ RouterTypeOK' /\ at' = at /\ Len(hist') = Len(hist)
        /\ \A i \in 1..Len(hist) : i # at => hist'[i] = hist[i]
    BY <1>0, <1>3, RedirectDoes
  <2>2. \A i \in 1..Len(hist') : Redirects(hist'[i]) => i = at'
    BY <1>0, <2>1
  <2> QED
    BY <2>1, <2>2 DEF RouterIInv, NoTrap
<1>4. CASE UNCHANGED routerVars
  <2>1. hist' = hist /\ at' = at
    BY <1>4 DEF routerVars
  <2>2. \A i \in 1..Len(hist') : Redirects(hist'[i]) => i = at'
    BY <1>0, <2>1
  <2> QED
    BY <1>0, <2>1, <2>2 DEF RouterIInv, RouterTypeOK, NoTrap
<1> QED
  BY <1>1, <1>2, <1>3, <1>4 DEF RouterNext

LEMMA RouterInvariant == RouterSpec => []RouterIInv
  BY RouterInitially, RouterStep, PTL DEF RouterSpec

\* The current entry is one of the tab's history, whose paths are sequences of
\* segments that the routes, the links or the reader name.
THEOREM RouterType == RouterSpec => []RouterTypeOK
<1>1. RouterIInv => RouterTypeOK
  BY DEF RouterIInv
<1> QED
  BY <1>1, RouterInvariant, PTL

\* The redirect of GettingStarted never leaves an entry behind that would
\* redirect again when the reader goes back to it.
THEOREM BackIsFree == RouterSpec => []NoTrap
<1>1. RouterIInv => NoTrap
  BY DEF RouterIInv
<1> QED
  BY <1>1, RouterInvariant, PTL

-----------------------------------------------------------------------------
(* Where the links lead *)

LEMMA EmptySegment == \A r \in routes : r # "" /\ r # GetStarted
  BY DEF routes, GetStarted

\* A path of two segments below get-started shows the page of its route.
LEMMA GuideOfRoute == ASSUME NEW r \in routes PROVE GuidePages(<<GetStarted, r>>) = {r}
<1>1. \A q : Slashed(<<GetStarted, q>>) = <<GetStarted, q, "">>
  BY AppendToTwo DEF Slashed
<1>2. ASSUME NEW q \in routes
      PROVE  MatchesExact(<<GetStarted, q>>, <<GetStarted, r>>) <=> q = r
  <2>1. MatchesExact(<<GetStarted, q>>, <<GetStarted, r>>)
            <=> <<GetStarted, r>> = <<GetStarted, q>> \/ <<GetStarted, r>> = <<GetStarted, q, "">>
    BY <1>1 DEF MatchesExact
  <2>2. <<GetStarted, r>> = <<GetStarted, q>> <=> r = q
    BY DifferentPaths
  <2>3. <<GetStarted, r>> # <<GetStarted, q, "">>
    BY DifferentPaths
  <2> QED
    BY <2>1, <2>2, <2>3
<1> QED
  BY <1>2 DEF GuidePages

LEMMA NoGuide ==
    ASSUME NEW path, path = <<GetStarted>> \/ path = <<GetStarted, "">>
    PROVE  GuidePages(path) = {}
<1>1. \A q : Slashed(<<GetStarted, q>>) = <<GetStarted, q, "">>
  BY AppendToTwo DEF Slashed
<1>2. ASSUME NEW q \in routes PROVE ~MatchesExact(<<GetStarted, q>>, path)
  <2>1. MatchesExact(<<GetStarted, q>>, path)
            <=> path = <<GetStarted, q>> \/ path = <<GetStarted, q, "">>
    BY <1>1 DEF MatchesExact
  <2>2. <<GetStarted>> # <<GetStarted, q>> /\ <<GetStarted>> # <<GetStarted, q, "">>
    BY DifferentPaths
  <2>3. <<GetStarted, "">> # <<GetStarted, q, "">>
    BY DifferentPaths
  <2>4. <<GetStarted, "">> # <<GetStarted, q>>
    BY DifferentPaths, EmptySegment
  <2> QED
    BY <2>1, <2>2, <2>3, <2>4
<1> QED
  BY <1>2 DEF GuidePages

\* <Route path="/get-started"> and the paths a link may lead to.
LEMMA Below ==
    /\ ~Matches(<<GetStarted>>, << >>)
    /\ Matches(<<GetStarted>>, <<GetStarted>>)
    /\ \A r : Matches(<<GetStarted>>, <<GetStarted, r>>)
<1>1. /\ Len(<<GetStarted>>) = 1 /\ Len(<< >>) = 0
      /\ \A r : Len(<<GetStarted, r>>) = 2
  OBVIOUS
<1>2. \A r : SubSeq(<<GetStarted>>, 1, 1) = SubSeq(<<GetStarted, r>>, 1, 1)
  OBVIOUS
<1> QED
  BY <1>1, <1>2 DEF Matches, IsPrefix

\* Every link of a page at rest leads to the page it is labelled with.
LEMMA LinksOfPage ==
    ASSUME NEW path \in Paths, ~Redirects(path), NEW link \in Links(path)
    PROVE  \/ Pages(link.to) = {link.label}
           \/ Redirects(link.to) /\ link.label = "introduction"
<1>1. CASE link \in NavLinks
  <2>1. CASE link = [to |-> << >>, label |-> "Content"]
    <3>1. Pages(<< >>) = {"Content"}
      BY Below DEF Pages, MatchesExact
    <3> QED
      BY <2>1, <3>1
  <2>2. CASE link = [to |-> <<GetStarted>>, label |-> "introduction"]
    <3>1. Redirects(<<GetStarted>>)
      BY Below, NoGuide DEF Redirects
    <3> QED
      BY <2>2, <3>1
  <2> QED
    BY <1>1, <2>1, <2>2 DEF NavLinks
<1>2. CASE link \in Sidebar(path)
  <2>1. Matches(<<GetStarted>>, path)
    BY <1>2 DEF Sidebar
  <2>2. path # <<GetStarted, "">>
    BY <2>1, NoGuide DEF Redirects
  <2>3. MatchUrl(<<GetStarted>>, path) = <<GetStarted>>
    BY <2>2, AppendToOne DEF MatchUrl, Slashed
  <2>4. PICK r \in routes : link = [to |-> Append(<<GetStarted>>, r), label |-> r]
    BY <1>2, <2>1, <2>3 DEF Sidebar
  <2>5. link.to = <<GetStarted, r>> /\ link.label = r
    BY <2>4, AppendToOne
  <2>6. ~MatchesExact(<< >>, <<GetStarted, r>>)
    <3>1. Len(<<GetStarted, r>>) = 2 /\ Len(<< >>) = 0 /\ Len(Slashed(<< >>)) = 1
      BY DEF Slashed
    <3> QED
      BY <3>1 DEF MatchesExact
  <2>7. Pages(<<GetStarted, r>>) = {r}
    BY <2>6, GuideOfRoute, Below DEF Pages
  <2> QED
    BY <2>5, <2>7
<1> QED
  BY <1>1, <1>2 DEF Links

\* App's routes are no alternatives of a Switch: at most one page is shown.
OnePage == \A p, q \in Pages(Path) : p = q

\* The links of Nav and of GettingStarted's sidebar lead to the pages they are
\* labelled with, from every page that a reader can come to.
THEOREM LinksLeadThere == RouterSpec => []LinksLead
<1>1. RouterTypeOK => LinksLead
  <2> SUFFICES ASSUME RouterTypeOK PROVE LinksLead
    OBVIOUS
  <2>1. Path \in Paths
    BY DEF RouterTypeOK, Path, Paths
  <2> QED
    BY <2>1, LinksOfPage DEF LinksLead, Calm
<1> QED
  BY <1>1, RouterType, PTL

\* App renders its routes side by side and those of GettingStarted below a
\* prefix: still no path, typed or linked, shows two pages at once.
THEOREM OnePageShown == RouterSpec => []OnePage
<1>1. RouterTypeOK => OnePage
  <2> SUFFICES ASSUME RouterTypeOK, NEW p \in Pages(Path), NEW q \in Pages(Path)
               PROVE  p = q
    BY DEF OnePage
  <2>1. \A r : Slashed(<<GetStarted, r>>) = <<GetStarted, r, "">>
    BY AppendToTwo DEF Slashed
  <2>2. ASSUME NEW r \in GuidePages(Path)
        PROVE  Path = <<GetStarted, r>> \/ Path = <<GetStarted, r, "">>
    BY <2>1, <2>2 DEF GuidePages, MatchesExact
  <2>3. ASSUME NEW r \in GuidePages(Path), NEW s \in GuidePages(Path)
        PROVE  r = s
    <3>1. /\ <<GetStarted, r>> = <<GetStarted, s>> <=> r = s
          /\ <<GetStarted, r, "">> = <<GetStarted, s, "">> <=> r = s
      BY DifferentPaths
    <3>2. /\ <<GetStarted, r>> # <<GetStarted, s, "">>
          /\ <<GetStarted, s>> # <<GetStarted, r, "">>
      BY DifferentPaths
    <3>3. Path = <<GetStarted, r>> \/ Path = <<GetStarted, r, "">>
      BY <2>2
    <3>4. Path = <<GetStarted, s>> \/ Path = <<GetStarted, s, "">>
      BY <2>2
    <3> QED
      BY <3>1, <3>2, <3>3, <3>4
  <2>4. ASSUME MatchesExact(<< >>, Path)
        PROVE  GuidePages(Path) = {}
    <3>1. Path = << >> \/ Path = <<"">>
      BY <2>4, AppendToNone DEF MatchesExact, Slashed
    <3>2. ASSUME NEW r \in GuidePages(Path)
          PROVE  FALSE
      <4>1. Path = <<GetStarted, r>> \/ Path = <<GetStarted, r, "">>
        BY <2>2
      <4>2. /\ << >> # <<GetStarted, r>> /\ << >> # <<GetStarted, r, "">>
            /\ <<"">> # <<GetStarted, r>> /\ <<"">> # <<GetStarted, r, "">>
        BY DifferentPaths
      <4> QED
        BY <3>1, <4>1, <4>2
    <3> QED
      BY <3>2
  <2> QED
    BY <2>3, <2>4 DEF Pages
<1> QED
  BY <1>1, RouterType, PTL
=============================================================================
