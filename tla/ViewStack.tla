------------------------------ MODULE ViewStack ------------------------------
(***************************************************************************)
(* The stack of views of borealis' Application, as far as it decides who   *)
(* takes the user's input and when a view is deleted (third_party/borealis *)
(* application.cpp, view.cpp, dialog.cpp, animations.cpp).                 *)
(*                                                                         *)
(* A view is a pair of its class and its owner.  Views come and go with    *)
(* animations of one fixed length, so animations end in the order they     *)
(* were started; what pushView and popView still have to do is in the      *)
(* callback an animation ends with, and a view that is shown or hidden     *)
(* again loses the animation it had, callback included.  Deleting a view   *)
(* leaves the pointers to it where they are.                               *)
(***************************************************************************)
EXTENDS Naturals, Sequences

VARIABLES
    app         \* the static state of Application

\* back() and pop_back() of a std::vector.
Top(s) == s[Len(s)]
Below(s) == SubSeq(s, 1, Len(s) - 1)

Root == <<"root", "shell">>
Splash == <<"splash", "shell">>
None == <<"none", "none">>

EmptyApp ==
    [stack |-> <<>>,        \* viewStack
     anims |-> <<>>,        \* the tweens on the alpha of a view
     tokens |-> 0,          \* blockInputsTokens
     focus |-> None,        \* the view currentFocus is in
     focusStack |-> <<>>,
     hidden |-> {},         \* views with isHidden()
     freed |-> {}]          \* views that were deleted

\* menu_animation_kill_by_tag: the tween goes, and its callback with it.  A
\* view has one at most, because show and hide both start with this.
kill(a, v) ==
    IF \E i \in DOMAIN a.anims : a.anims[i].view = v
    THEN LET k == CHOOSE i \in DOMAIN a.anims : a.anims[i].view = v
         IN [a EXCEPT !.anims = [i \in 1 .. Len(@) - 1 |-> @[IF i < k THEN i ELSE i + 1]]]
    ELSE a

show(a, v, cb) ==
    [kill(a, v) EXCEPT !.hidden = @ \ {v},
                       !.anims = Append(@, [view |-> v, kind |-> "show", cb |-> cb])]

hide(a, v, cb) ==
    [kill(a, v) EXCEPT !.hidden = @ \cup {v},
                       !.anims = Append(@, [view |-> v, kind |-> "hide", cb |-> cb])]

\* The view below is never faded out first: the splash screen is pushed while
\* the root still fades in, and everything pushed later is a dialog.
pushView(a, v) ==
    [show(a, v, "unblock") EXCEPT
        !.tokens = @ + 1,
        !.focusStack = IF a.stack # <<>> /\ a.focus # None THEN Append(@, a.focus) ELSE @,
        !.focus = IF v = Splash THEN None ELSE v,
        !.freed = @ \ {v},
        !.stack = Append(@, v)]

\* popView takes whatever view is on top; Dialog::close() calls it.
popView(a, cb) ==
    IF Len(a.stack) <= 1
    THEN a
    ELSE [hide(a, Top(a.stack), cb) EXCEPT
             !.tokens = @ + 1,
             !.focus = IF a.focusStack # <<>> THEN Top(a.focusStack) ELSE @,
             !.focusStack = IF @ # <<>> THEN Below(@) ELSE @]

unblockInputs(a) == [a EXCEPT !.tokens = IF @ > 0 THEN @ - 1 ELSE 0]

\* The first animation ends.
Ending == Head(app.anims)

Dequeued == [app EXCEPT !.anims = Tail(@)]

\* The end of popView's animation: the top of the stack goes, whatever it is by
\* now, and the view that was animated is deleted.
Popped ==
    unblockInputs([Dequeued EXCEPT
        !.stack = Below(@),
        !.freed = @ \cup {Ending.view},
        !.focus = IF @ = Ending.view THEN None ELSE @])

\* popView's callback is called at once when the view below was not hidden,
\* and otherwise only after that view has been shown again.
CallsBack == Popped.stack # <<>> /\ Top(Popped.stack) \notin Popped.hidden

\* The view below, if there is one, is shown again before the callback.
Uncovered ==
    IF Popped.stack = <<>> THEN Popped ELSE show(Popped, Top(Popped.stack), Ending.cb)

\* A callback that opens a dialog or starts work is due.
Due(cb) ==
    /\ app.anims # <<>>
    /\ Ending.cb = cb
    /\ Ending.kind = "hide" => CallsBack

\* The stack once the callback that is due has been reached.
AtCallback == IF Ending.kind = "hide" THEN Popped ELSE Dequeued

\* The ends of animations that call nothing back.
Settle ==
    /\ app.anims # <<>>
    /\ \/ /\ Ending.kind = "show" /\ Ending.cb = "unblock"
          /\ app' = unblockInputs(Dequeued)
       \/ /\ Due("none")
          /\ app' = AtCallback
       \/ /\ Ending.kind = "hide" /\ ~CallsBack
          /\ app' = Uncovered

\* A button press reaches the view that has the focus.
Pressed(v) == app.tokens = 0 /\ app.focus = v

\* A view on the stack was deleted: drawing it is undefined.
Dangling == \E i \in DOMAIN app.stack : app.stack[i] \in app.freed
=============================================================================
