------------------------------- MODULE Router -------------------------------
(***************************************************************************)
(* The pages of the website in one tab (website/src/App.js, Nav/index.js,  *)
(* GettingStarted/index.js): a HashRouter, the routes of App and those of  *)
(* GettingStarted below it, the links on the page and the tab's history.   *)
(*                                                                         *)
(* A path is the sequence of its segments; a trailing slash is an empty    *)
(* last segment.  react-router compares paths without regard to case, so a *)
(* segment stands for all its spellings.  What react-router does is        *)
(* modelled from its use here.                                             *)
(***************************************************************************)
EXTENDS Naturals, Sequences, SequencesExt

CONSTANTS Unknown,      \* a segment that no route names
          MaxHistory    \* bound: entries of the history

ASSUME RouterAssumption == MaxHistory \in Nat \ {0}

VARIABLES hist,   \* window.history: paths
          at      \* the current entry

routerVars == <<hist, at>>

-----------------------------------------------------------------------------
(* Routes *)

GetStarted == "get-started"

routes == {"introduction", "concepts", "try-it-out", "tables",
           "writers", "readers", "sidecar", "tests"}

Segments == routes \cup {GetStarted, Unknown, ""}

Slashed(path) == Append(path, "")

\* <Route exact path=...>; a trailing slash does not count.
MatchesExact(route, path) == path \in {route, Slashed(route)}

\* <Route path=...>: this path and all below it, by whole segments.
Matches(route, path) == IsPrefix(route, path)

\* match.url: the part that matched, with the slash if that is all there is.
MatchUrl(route, path) == IF path = Slashed(route) THEN path ELSE route

\* The pages of GettingStarted's Switch, if not the Redirect.
GuidePages(path) == {r \in routes : MatchesExact(<<GetStarted, r>>, path)}

\* What App renders under Nav: its routes are no alternatives of a Switch.
Pages(path) ==
    {p \in {"Content"} : MatchesExact(<< >>, path)}
    \cup (IF Matches(<<GetStarted>>, path) THEN GuidePages(path) ELSE {})

\* Does GettingStarted's Switch come to its Redirect?
Redirects(path) == Matches(<<GetStarted>>, path) /\ GuidePages(path) = {}

-----------------------------------------------------------------------------
(* Links: where they lead and the page they are labelled with *)

\* "ctlstore" and "Get Started"; the other links of Nav leave the site.
NavLinks == {[to |-> << >>, label |-> "Content"],
             [to |-> <<GetStarted>>, label |-> "introduction"]}

\* Mutant: links are relative to the current path.
SidebarRelative(path) ==
    IF Matches(<<GetStarted>>, path)
    THEN {[to |-> Append(path, r), label |-> r] : r \in routes} ELSE {}

Sidebar(path) ==
    IF Matches(<<GetStarted>>, path)
    THEN {[to |-> Append(MatchUrl(<<GetStarted>>, path), r), label |-> r] : r \in routes}
    ELSE {}

Links(path) == NavLinks \cup Sidebar(path)

-----------------------------------------------------------------------------
Path == hist[at]

\* Paths a reader may type.
Typed == LET plain == {<< >>, <<GetStarted>>, <<Unknown>>, <<GetStarted, Unknown>>}
                      \cup {<<GetStarted, r>> : r \in routes}
         IN  plain \cup {Slashed(p) : p \in plain \ {<< >>}}
             \cup {<<GetStarted, r, Unknown>> : r \in routes}

RouterTypeOK ==
    /\ hist \in Seq(Seq(Segments))
    /\ Len(hist) <= MaxHistory
    /\ at \in 1..Len(hist)

RouterInit ==
    /\ \E path \in Typed : hist = <<path>>
    /\ at = 1

\* history.push; pushing the current path does nothing under a hash.
Push(path) ==
    /\ path # Path
    /\ at < MaxHistory
    /\ hist' = Append(SubSeq(hist, 1, at), path)
    /\ at' = at + 1

\* A click or key is handled after a redirect that is due.
Calm == ~Redirects(Path)

Click == Calm /\ \E link \in Links(Path) : Push(link.to)

Type == Calm /\ \E path \in Typed : Push(path)

Go == /\ Calm
      /\ at' \in {at - 1, at + 1} \cap 1..Len(hist)
      /\ UNCHANGED hist

\* Mutants: the redirect pushes; it leads to match.path itself.
RedirectPush ==
    /\ Redirects(Path)
    /\ Push(<<GetStarted, "introduction">>)

RedirectToMatch ==
    /\ Redirects(Path)
    /\ hist' = [hist EXCEPT ![at] = <<GetStarted>>]
    /\ UNCHANGED at

\* <Redirect to=...>: history.replace.
Redirect ==
    /\ Redirects(Path)
    /\ hist' = [hist EXCEPT ![at] = <<GetStarted, "introduction">>]
    /\ UNCHANGED at

RouterNext == Click \/ Type \/ Go \/ Redirect

\* Redirect happens when the page is mounted.
RouterSpec == RouterInit /\ [][RouterNext]_routerVars /\ WF_routerVars(Redirect)

-----------------------------------------------------------------------------
(* Properties *)

\* The back button is not trapped: no entry but the current one redirects.
NoTrap == \A i \in 1..Len(hist) : Redirects(hist[i]) => i = at

\* Every link leads to the page it is labelled with, from every page, at once
\* or by the redirect.
LinksLead ==
    Calm => \A link \in Links(Path) :
        \/ Pages(link.to) = {link.label}
        \/ Redirects(link.to) /\ link.label = "introduction"

\* A redirect ends on a page: no loop.
Settles == []<>Calm
=============================================================================
