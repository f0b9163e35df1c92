---------------------------- MODULE SetupLookups ----------------------------
(***************************************************************************)
(* Searching the setup for screens and visuals: aux/xcb_aux.c.             *)
(*                                                                         *)
(* A screen is a sequence of depths, each with a sequence of visuals; the  *)
(* protocol allows a visual to be listed in several depths.  A visual that *)
(* is found is its place, <<depth, visual>>, or Null.                      *)
(***************************************************************************)
EXTENDS Searches

CONSTANTS
    Visual,         \* the visual ids
    Class,          \* the class of each of them
    MaxVisuals,     \* bound: visuals in a depth
    Null

VARIABLES
    screens,    \* xcb_setup_roots: the depths of each screen
    asked,      \* the last call: the function, the screen and what to look for
    found       \* what it returned

vars == <<screens, asked, found>>

Depth(number, visuals) == [depth |-> number, visuals |-> visuals]

VisualLists == SeqOf(Visual, MaxVisuals)

\* Screens of one depth, and of two; another screen has every visual.
Screens ==
    {<<Depth(24, v)>> : v \in VisualLists} \cup
    {<<Depth(24, v), Depth(1, w)>> : v \in VisualLists, w \in VisualLists}

Another == <<Depth(8, SetToSeq(Visual))>>

Init ==
    /\ \E s \in Screens : screens \in {<<s>>, <<Another, s>>}
    /\ asked = [call |-> "none"] /\ found = Null

-----------------------------------------------------------------------------

\* The places of visuals in a screen.
Places(screen) == UNION {{<<i, j>> : j \in DOMAIN screen[i].visuals} : i \in DOMAIN screen}

VisualAt(screen, place) == screen[place[1]].visuals[place[2]]

\* The place at which a loop over the depths and the visuals of each returns,
\* if these are the places that pass its test.
FirstPlace(screen, passing) ==
    LET InDepth(i) == FirstOf([j \in DOMAIN screen[i].visuals |->
                                  IF <<i, j>> \in passing THEN <<i, j>> ELSE Null], Null)
    IN  FirstOf([i \in DOMAIN screen |-> InDepth(i)], Null)

\* Where a visual is, with its depth.
PlacesOf(screen, id) ==
    {place \in Places(screen) : VisualAt(screen, place) = id}

\* Mutant: only the first depth is searched.
FindInFirstDepth(screen, id) ==
    FirstPlace(screen, {place \in PlacesOf(screen, id) : place[1] = 1})

xcb_aux_find_visual_by_id(screen, id) == FirstPlace(screen, PlacesOf(screen, id))

xcb_aux_get_depth_of_visual(screen, id) ==
    LET place == FirstPlace(screen, PlacesOf(screen, id))
    IN  IF place = Null THEN 0 ELSE screen[place[1]].depth

\* -1 stands for any class, or any depth.
xcb_aux_find_visual_by_attrs(screen, class, depth) ==
    FirstPlace(screen, {place \in Places(screen) :
        /\ depth \in {-1, screen[place[1]].depth}
        /\ class \in {-1, Class[VisualAt(screen, place)]}})

\* Screens count from 0.
xcb_aux_get_screen(n) == IF n + 1 \in DOMAIN screens THEN screens[n + 1] ELSE Null

\* The visuals that the loop of xcb_aux_get_visualtype visits: cur counts up
\* while iter.rem, which it is compared with, counts down.
Visits(visuals) == {cur \in 0 .. Len(visuals) - 1 : cur < Len(visuals) - cur}

\* The first depth is searched.
xcb_aux_get_visualtype(n, id) ==
    LET screen == xcb_aux_get_screen(n)
        hits   == {cur \in Visits(screen[1].visuals) : screen[1].visuals[cur + 1] = id}
    IN  IF screen = Null THEN Null
        ELSE IF hits = {} THEN Null ELSE <<1, Min(hits) + 1>>

-----------------------------------------------------------------------------
(* The client.  It knows how many screens there are, except when it asks    *)
(* for one by its number.                                                   *)

Answer(call, result) ==
    /\ asked.call = "none"
    /\ asked' = call /\ found' = result
    /\ UNCHANGED screens

Numbers == 0 .. Len(screens) - 1

Screen == screens[asked.screen + 1]

FindById(n, id) ==
    Answer([call |-> "id", screen |-> n, id |-> id],
           xcb_aux_find_visual_by_id(screens[n + 1], id))

GetDepth(n, id) ==
    Answer([call |-> "depth", screen |-> n, id |-> id],
           xcb_aux_get_depth_of_visual(screens[n + 1], id))

FindByAttrs(n, class, depth) ==
    Answer([call |-> "attrs", screen |-> n, class |-> class, depth |-> depth],
           xcb_aux_find_visual_by_attrs(screens[n + 1], class, depth))

GetVisualtype(n, id) ==
    Answer([call |-> "visualtype", screen |-> n, id |-> id], xcb_aux_get_visualtype(n, id))

Next ==
    \/ \E n \in Numbers, id \in Visual : FindById(n, id) \/ GetDepth(n, id)
    \/ \E n \in Numbers, class \in -1 .. 5, depth \in {-1, 1, 8, 24} : FindByAttrs(n, class, depth)
    \/ \E n \in 0 .. 2, id \in Visual : GetVisualtype(n, id)

Spec == Init /\ [][Next]_vars

-----------------------------------------------------------------------------
(* Properties.                                                              *)

\* Looked up by its id, a visual is found if it is anywhere on the screen, and
\* the depth that is given for it is one it is listed in, the one of the visual
\* that is found (xcb_aux.c:60-73, 110-123).
IdsAreFound ==
    /\ asked.call = "id" =>
          IF PlacesOf(Screen, asked.id) = {} THEN found = Null
          ELSE /\ found \in PlacesOf(Screen, asked.id)
               /\ Screen[found[1]].depth = xcb_aux_get_depth_of_visual(Screen, asked.id)
    /\ asked.call = "depth" => (found = 0 <=> PlacesOf(Screen, asked.id) = {})

\* Looked up by class and depth, a visual that has them is found if there is
\* one, and none of those before it has them (xcb_aux.c:125-142).
AttrsAreFound ==
    asked.call = "attrs" =>
        LET Has(p) == /\ asked.class = -1 \/ Class[VisualAt(Screen, p)] = asked.class
                      /\ asked.depth = -1 \/ Screen[p[1]].depth = asked.depth
            having == {p \in Places(Screen) : Has(p)}
        IN  IF having = {} THEN found = Null
            ELSE /\ found \in having
                 /\ \A p \in having : found[1] < p[1] \/ (found[1] = p[1] /\ found[2] <= p[2])

\* xcb_aux_get_visualtype gives no wrong visual, and misses none but those in
\* the second half of a depth, or in another depth than the first
\* (xcb_aux.c:99-105).
VisualtypeMissesHalf ==
    asked.call = "visualtype" =>
        IF asked.screen + 1 \notin DOMAIN screens THEN found = Null
        ELSE LET early == {p \in PlacesOf(Screen, asked.id) :
                              p[1] = 1 /\ 2 * p[2] <= Len(Screen[1].visuals) + 1}
             IN  IF early = {} THEN found = Null ELSE found \in early
=============================================================================
