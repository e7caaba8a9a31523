----------------------------- MODULE MCKeyboard -----------------------------
(***************************************************************************)
(* Keyboard, for TLC.                                                      *)
(***************************************************************************)
EXTENDS Keyboard

Down(ext, code) == [key |-> <<ext, code>>, up |-> FALSE]
Up(ext, code) == [key |-> <<ext, code>>, up |-> TRUE]

(* Two macros with a common beginning: one ends where the other goes on,   *)
(* and they need opposite modifiers.                                       *)
MCMacros ==
    << [seq |-> <<Down(1, "x"), Down(0, "x")>>, when |-> "down"],
       [seq |-> <<Down(1, "x"), Down(0, "x"), Up(0, "x")>>, when |-> "up"] >>

MCKey == {<<0, "2a">>, <<0, "x">>, <<1, "x">>}
MCExtended == {<<1, "x">>}

(* Of the keys that are handled alike there is one, and none of those that *)
(* do nothing.                                                             *)
MCScanOrder ==
    <<"lctrl", "a", "lshift", "lalt", "numlock", "plus", "sysrq", "eject", "f1",
      "fkeys", "prtsc", "ralt", "del", "lwin", "sleep", "fnup">>
=============================================================================
