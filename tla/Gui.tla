-------------------------------- MODULE Gui ----------------------------------
(***************************************************************************)
(* The tree of views of engine/gui: messages change views and mark what    *)
(* has changed, up to the screen; update refreshes the marked paths only   *)
(* and tells the renderer (update.hpp, view_refresh.hpp, render.cpp).      *)
(* Views are numbers: 1 is the screen, the others in the order in which    *)
(* create makes them, and then the items that lists make.                  *)
(***************************************************************************)
EXTENDS Integers, Sequences, SequencesExt, FiniteSets, FiniteSetsExt

CONSTANTS
    GuiData,        \* what load returns, in the order of creation, after the screen
    ItemData,       \* item_template of lists
    GuiMessages,    \* messages that other threads post
    GuiWidth,       \* stands for 2^32: numbers of pixels wrap at it
    MaxGuiPosts,    \* bound: messages posted
    MaxGuiQueue     \* bound: messages waiting in queue_posts

ASSUME GuiDataAssumption == \A i \in DOMAIN GuiData : GuiData[i].parent \in 1 .. i

VARIABLES
    guiViews,       \* views, by number
    guiMade,        \* reloads so far: the entities of views are new in each of them
    activeTab,      \* controller::tab_t::active_tab
    listNodes,      \* the views that react to each item of the list
    guiQueue,       \* queue_posts
    guiPosts,       \* messages posted so far
    undefined       \* the program did what has no defined outcome

guiVars == <<guiViews, guiMade, activeTab, listNodes, guiQueue, guiPosts, undefined>>

Dims == {"height", "width"}
MovedIn(d) == IF d = "height" THEN "MOVED_H" ELSE "MOVED_W"
ResizedIn(d) == IF d = "height" THEN "SIZE_HEIGHT" ELSE "SIZE_WIDTH"
Screen == 1
NoView == 0
NotDrawn == [drawn |-> FALSE]

\* Change() sets the low eight bits, which SIZE_WIDTH is not one of.
AllButWidth == {"DATA", "VISIBILITY", "MOVED_H", "MOVED_W", "SIZE_HEIGHT"}

Plus(a, b) == (a + b) % GuiWidth
Minus(a, b) == (a - b) % GuiWidth

\* The dimension that a group lines its children up in.
Axis(layout) == CASE layout = "HORIZONTAL" -> "width" [] layout = "VERTICAL" -> "height" [] OTHER -> "none"
margin_of(view, d) == Plus(view.margin[d][1], view.margin[d][2])
Extent(view, d) == Plus(view.size[d], margin_of(view, d))

\* A view as create makes it; it takes its place in its parent with Adopted.
NewView(data) ==
    [parent |-> data.parent, kind |-> data.kind, layout |-> data.layout, type |-> data.type, margin |-> data.margin,
     gravity |-> data.gravity, size |-> data.size, text |-> data.text, action |-> data.action, target |-> data.target,
     observe |-> data.observe,
     offset |-> [d \in Dims |-> 0], change |-> AllButWidth, state |-> "DEFAULT", children |-> <<>>,
     rendered |-> FALSE, drawn |-> NotDrawn, measured |-> {}]

Adopted(V, v) == [V EXCEPT ![V[v].parent] = [@ EXCEPT !.children = Append(@, v)]]
Abandoned(V, v) == [V EXCEPT ![V[v].parent] = [@ EXCEPT !.children = RemoveFirst(@, v)]]

-----------------------------------------------------------------------------
(* ViewUpdater.                                                            *)

wrap_content(V, v, d) ==
    LET view == V[v]
        sizes == {V[c].size[d] : c \in {k \in ToSet(view.children) : V[k].type[d] # "PARENT"}}
    IN IF view.kind = "Text" THEN (IF d = "height" THEN 6 ELSE 6 * view.text)
       ELSE IF Axis(view.layout) = d THEN FoldSeq(LAMBDA c, sum : Plus(sum, Extent(V[c], d)), 0, view.children)
       ELSE Max(sizes \cup {0})

\* The dimensions of dims in which v wraps its content and has another size now.
Rewrapped(V, v, dims) == {d \in dims : V[v].type[d] = "WRAP" /\ V[v].size[d] # wrap_content(V, v, d)}
Measured(V, v, dims) ==
    LET size(d) == IF d \in Rewrapped(V, v, dims) THEN wrap_content(V, v, d) ELSE V[v].size[d]
    IN [V EXCEPT ![v] = [@ EXCEPT !.size = [d \in Dims |-> size(d)], !.measured = @ \cup dims]]
Marked(V, v, flags) == [V EXCEPT ![v] = [@ EXCEPT !.change = @ \cup flags]]

\* Something below the group v has changed its size in dims: v does too, or moves its
\* children; so on up to the screen, which is told that there are changes below it.
RECURSIVE creation(_, _, _)
creation(V, v, dims) ==
    LET resized == Rewrapped(V, v, dims)
        own == Marked(Measured(V, v, dims), v, {MovedIn(d) : d \in dims \ resized})
        above == IF V[v].parent = NoView THEN own ELSE creation(own, V[v].parent, resized)
    IN Marked(above, v, {"DATA"} \cup {ResizedIn(d) : d \in resized})

parent_told(V, v, dims) == IF V[v].parent = NoView THEN V ELSE creation(V, V[v].parent, dims)

text_updated(V, v) ==
    LET resized == Rewrapped(V, v, Dims)
    IN [views |-> Marked(Measured(V, v, Dims), v, {"DATA"} \cup {ResizedIn(d) : d \in resized}), resized |-> resized]

\* v and the views in it, as ChildUpdater visits them.
RECURSIVE Below(_, _)
Below(V, v) == {v} \cup UNION {Below(V, c) : c \in ToSet(V[v].children)}

removed(view) == [view EXCEPT !.rendered = FALSE, !.drawn = NotDrawn]

\* Mutant: the group is not told that its child is gone.
hide_untold(V, v) ==
    LET told == [w \in Below(V, v) |-> [removed(V[w]) EXCEPT !.change = @ \cup {"DATA"}]] @@ V
    IN IF V[v].parent = NoView THEN told ELSE Abandoned(told, v)

hide(V, v) ==
    LET told == [w \in Below(V, v) |-> [removed(V[w]) EXCEPT !.change = @ \cup {"DATA"}]] @@ V
    IN IF V[v].parent = NoView THEN told ELSE parent_told(Abandoned(told, v), v, Dims)

show(V, v) ==
    LET told == parent_told(Adopted(Marked(V, v, {"VISIBILITY"}), v), v, Dims)
    IN Marked(told, V[v].parent, {ResizedIn(d) : d \in Dims})

status(V, v, state) ==
    LET told == [w \in Below(V, v) |-> [V[w] EXCEPT !.state = state, !.change = @ \cup {"DATA"}]] @@ V
    IN parent_told(told, v, {})

-----------------------------------------------------------------------------
(* ViewRefresh.                                                            *)

\* What the renderer is told of a view; a text says its own size.
Picture(view) ==
    [drawn |-> TRUE, offset |-> view.offset, state |-> view.state, text |-> view.text,
     size |-> IF view.kind = "Text" THEN <<>> ELSE view.size]

rendered(view) == [view EXCEPT !.rendered = TRUE, !.drawn = Picture(view)]

\* The place of a view where offset and size are left for it; gravity is for the
\* dimensions in which the group does not line its children up.
place(view, axis, offset, size) ==
    LET room(d) == Minus(size[d], view.size[d])
        before(d) == view.margin[d][1]
        after(d) == view.margin[d][2]
        at(d) == IF view.type[d] = "PARENT" \/ axis = d \/ view.gravity[d] = "START" THEN Plus(offset[d], before(d))
                 ELSE IF view.gravity[d] = "END" THEN Plus(offset[d], Minus(room(d), after(d)))
                 ELSE Plus(offset[d], Plus(room(d) \div 2, Minus(before(d), after(d))))
        extent(d) == IF view.type[d] = "PARENT" THEN Minus(size[d], margin_of(view, d)) ELSE view.size[d]
        placed == [view EXCEPT !.offset = [d \in Dims |-> at(d)], !.size = [d \in Dims |-> extent(d)]]
    IN [placed EXCEPT !.change = @ \cup {MovedIn(d) : d \in {e \in Dims : at(e) # view.offset[e]}}
                                   \cup {ResizedIn(d) : d \in {e \in Dims : extent(e) # view.size[e]}}]

RECURSIVE refresh(_, _)
refresh(V, v) ==
    LET view == V[v]
        axis == Axis(view.layout)
        placing == view.change \cap {MovedIn(d) : d \in Dims} # {} \/ view.change \cap {ResizedIn(d) : d \in Dims} # {}
        left == [views |-> V, offset |-> view.offset, size |-> view.size]
        Placed(x, c) ==
            LET W == refresh([x.views EXCEPT ![c] = place(@, axis, x.offset, x.size)], c)
                taken(d) == IF axis = d THEN Extent(W[c], d) ELSE 0
            IN [views |-> W, offset |-> [d \in Dims |-> Plus(x.offset[d], taken(d))],
                size |-> [d \in Dims |-> Minus(x.size[d], taken(d))]]
        done == CASE view.kind # "Group" -> [V EXCEPT ![v] = rendered(@)]
                  [] view.kind = "Group" /\ placing -> FoldLeft(Placed, left, view.children).views
                  [] OTHER -> FoldLeft(refresh, V, view.children)
    IN IF view.change = {} THEN V ELSE [done EXCEPT ![v] = [@ EXCEPT !.change = {}]]

-----------------------------------------------------------------------------
(* Making the views, and the messages.                                     *)

\* create: of a text, the size is that of what it says at first; the tab controller
\* leaves its pages out of the pager, but the first.
created(V, v, data) ==
    LET W == Adopted((v :> NewView(data)) @@ V, v)
    IN IF data.kind = "Text" THEN text_updated(W, v).views ELSE W

ScreenData ==
    [parent |-> NoView, kind |-> "Group", layout |-> "RELATIVE", type |-> [d \in Dims |-> "FIXED"],
     margin |-> [d \in Dims |-> <<0, 0>>], gravity |-> [d \in Dims |-> "START"],
     size |-> [d \in Dims |-> IF d = "height" THEN 40 ELSE 60], text |-> 0, action |-> "none", target |-> NoView,
     observe |-> "none"]

Tabs == {v \in 2 .. Len(GuiData) + 1 : GuiData[v - 1].action = "tab"}
Pages == {GuiData[v - 1].target : v \in Tabs}
TheLists == {v \in 2 .. Len(GuiData) + 1 : GuiData[v - 1].observe = "list"}
FirstTab == IF Tabs = {} THEN NoView ELSE Min(Tabs)

loaded_views ==
    LET all == FoldLeft(LAMBDA V, i : created(V, i + 1, GuiData[i]), Screen :> NewView(ScreenData),
                        [i \in 1 .. Len(GuiData) |-> i])
        hidden == {p \in Pages : p # GuiData[FirstTab - 1].target}
    IN [v \in DOMAIN all |-> [all[v] EXCEPT !.children = SelectSeq(@, LAMBDA c : c \notin hidden)]]

\* clear removes every view from the renderer; the interactions of their entities stay.
Reload ==
    /\ guiViews' = loaded_views
    /\ guiMade' = guiMade + 1 /\ activeTab' = FirstTab
    /\ listNodes' = [i \in DOMAIN listNodes |-> <<>>]
    /\ UNCHANGED undefined

said(V, v, text) ==
    LET x == text_updated([V EXCEPT ![v] = [@ EXCEPT !.text = text]], v)
    IN parent_told(x.views, v, x.resized)

\* Of the items that are too many one is hidden after the other, by indices that were
\* right before: hide takes the view out of the group they are indices of.
items_hidden(V, list, from, to) ==
    FoldLeft(LAMBDA x, i : IF i > Len(x.views[list].children) THEN [x EXCEPT !.undefined = TRUE]
                           ELSE [x EXCEPT !.views = hide(@, @[list].children[i])],
             [views |-> V, undefined |-> FALSE], [k \in 1 .. to - from |-> from + k])

\* MessageData with values for the items of the list.
ListData(texts) ==
    LET list == Min(TheLists)
        current == Len(guiViews[list].children)
        goal == Len(texts)
        first == Cardinality(DOMAIN guiViews) + 1
        grown == FoldLeft(LAMBDA V, i : created(V, first + i - current - 1, [ItemData EXCEPT !.parent = list]),
                          guiViews, [k \in 1 .. goal - current |-> current + k])
        shrunk == items_hidden(guiViews, list, goal, current)
        views == IF current < goal THEN creation(grown, list, Dims) ELSE shrunk.views
        nodes == [i \in 1 .. Max({Len(listNodes), goal}) |->
                    (IF i \in DOMAIN listNodes THEN listNodes[i] ELSE <<>>) \o
                    (IF current < i /\ i <= goal THEN <<first + i - current - 1>> ELSE <<>>)]
        told(V, i) == FoldLeft(LAMBDA W, v : said(W, v, texts[i]), V, nodes[i])
    IN /\ guiViews' = FoldLeft(told, views, [i \in 1 .. goal |-> i])
       /\ listNodes' = nodes
       /\ undefined' = (undefined \/ (goal < current /\ shrunk.undefined))
       /\ UNCHANGED <<guiMade, activeTab>>

\* MessageData for a text.
TextData(text) ==
    /\ guiViews' = FoldLeft(LAMBDA V, v : said(V, v, text), guiViews,
                            SetToSortSeq({v \in DOMAIN guiViews : guiViews[v].observe = "text"}, <))
    /\ UNCHANGED <<guiMade, activeTab, listNodes, undefined>>

get_state(interaction) ==
    CASE interaction \in {"HIGHLIGHT", "RELEASE"} -> "HIGHLIGHT"
      [] interaction = "PRESS" -> "PRESSED"
      [] OTHER -> "DEFAULT"

\* The controller of the tabs: the page in the pager is hidden, if there is one.
activate(tab) ==
    LET pager == guiViews[guiViews[tab].target].parent
        states == status(status(guiViews, activeTab, "DEFAULT"), tab, "PRESSED")
    IN IF activeTab = tab THEN UNCHANGED <<guiViews, activeTab, undefined>>
       ELSE IF guiViews[pager].children = <<>>
       THEN undefined' = TRUE /\ UNCHANGED <<guiViews, activeTab>>
       ELSE /\ guiViews' = show(hide(states, guiViews[pager].children[1]), guiViews[tab].target)
            /\ activeTab' = tab
            /\ UNCHANGED undefined

\* An interaction with an entity of views that are gone is still known.
Interaction(m) ==
    LET view == guiViews[m.view]
        acted == m.interaction = "RELEASE" \/ view.action = "selection"
    IN
    /\ IF m.made # guiMade
       THEN /\ undefined' = (undefined \/ (acted /\ view.action \in {"close", "selection", "tab"}))
            /\ UNCHANGED <<guiViews, activeTab>>
       ELSE CASE view.action = "close" /\ m.interaction = "RELEASE" ->
                    guiViews' = hide(guiViews, view.target) /\ UNCHANGED <<activeTab, undefined>>
              [] view.action = "selection" ->
                    /\ guiViews' = status(guiViews, view.target, get_state(m.interaction))
                    /\ UNCHANGED <<activeTab, undefined>>
              [] view.action = "tab" /\ m.interaction = "RELEASE" -> activate(m.view)
              [] OTHER -> UNCHANGED <<guiViews, activeTab, undefined>>
    /\ UNCHANGED <<guiMade, listNodes>>

\* There is no screen until the first reload, which is posted before anything else.
GuiInit ==
    /\ guiViews = <<>> /\ guiMade = 0 /\ activeTab = NoView /\ listNodes = <<>>
    /\ guiQueue = <<[type |-> "Reload"]>> /\ guiPosts = 0 /\ undefined = FALSE

\* An entity is known to others when its view has been made.
GuiPost(m) ==
    /\ guiPosts < MaxGuiPosts /\ Len(guiQueue) < MaxGuiQueue
    /\ m.type = "Interaction" => guiMade > 0
    /\ guiQueue' = Append(guiQueue, [m EXCEPT !.made = guiMade])
    /\ guiPosts' = guiPosts + 1
    /\ UNCHANGED <<guiViews, guiMade, activeTab, listNodes, undefined>>

\* update: a message after the other, and when there is none the views are refreshed.
GuiMessage ==
    /\ guiQueue # <<>> /\ ~undefined
    /\ guiQueue' = Tail(guiQueue)
    /\ LET m == Head(guiQueue) IN
       CASE m.type = "Reload" -> Reload
         [] m.type = "List" -> ListData(m.texts)
         [] m.type = "Text" -> TextData(m.text)
         [] m.type = "Interaction" -> Interaction(m)
    /\ UNCHANGED guiPosts

GuiRefresh ==
    /\ guiQueue = <<>> /\ ~undefined /\ guiMade > 0
    /\ guiViews' = refresh(guiViews, Screen)
    /\ UNCHANGED <<guiMade, activeTab, listNodes, guiQueue, guiPosts, undefined>>

GuiNext == (\E m \in GuiMessages : GuiPost(m)) \/ GuiMessage \/ GuiRefresh

-----------------------------------------------------------------------------
(* Properties.                                                             *)

AllMarked(V) == [v \in DOMAIN V |-> [V[v] EXCEPT !.change = AllButWidth \cup {"SIZE_WIDTH"}]]
Drawn(V) == [v \in DOMAIN V |-> V[v].drawn]

\* Whatever order messages and refreshes come in, the marks that hide, show, status,
\* parent and creation leave are enough: after a refresh the renderer has been told
\* what a refresh of every view would tell it, views that are not in the tree are not
\* drawn, and a group that wraps its content and was told of it has its size.
GuiDrawsTree ==
    (~undefined /\ guiMade > 0 /\ guiViews[Screen].change = {}) =>
        /\ Drawn(guiViews) = Drawn(refresh(AllMarked(guiViews), Screen))
        /\ \A v \in DOMAIN guiViews : guiViews[v].drawn # NotDrawn => v \in Below(guiViews, Screen)
        /\ \A v \in DOMAIN guiViews : Rewrapped(guiViews, v, guiViews[v].measured) = {}

=============================================================================
