--------------------------- MODULE MCControlPlane ---------------------------
(* Two keyboards, one with an icon of its own and one that serves a        *)
(* language, a voice engine, and a language that is a layout only.         *)
EXTENDS ControlPlane

Engines ==
    [rime |-> [kind |-> "keyboard", icon |-> NoIcon, speaks |-> {"zh"}],
     skk  |-> [kind |-> "keyboard", icon |-> Icon("manifest", "skk"), speaks |-> {}],
     whisper |-> [kind |-> "voice", icon |-> NoIcon, speaks |-> {"zh"}]]
Languages2 == <<"zh", "ary">>
File(stem, name, dir) == [stem |-> stem, name |-> name, needs |-> {"keyboard"}, valid |-> TRUE, dir |-> dir]
Files == {File("rime", "rime", "system"), File("skk", "skk", "cli"), File("whisper", "whisper", "system"),
          [File(None, "skk", "none") EXCEPT !.needs = {"camera"}]}
AllDirs == <<"cli", "system">>
SystemDirs == <<"system">>
Set(key, what, of) == [key |-> key, what |-> what, of |-> of]
LayoutOnly == Set("languages.enabled", "language", "ary")
Settings == {LayoutOnly, Set("languages.ary.icon", "icon", "ary"), Set("voice.engine", "voice", "whisper"),
             Set("keyboard.disabled", "disabled", "rime")}
UserEdits == {{LayoutOnly}, {Set("voice.engine", "voice", "whisper")}, Garbled}
Modes == {[of |-> "rime", icon |-> NoIcon], [of |-> "rime", icon |-> Icon("mode", "rime")]}
Dynamics == {Icon("dynamic", "rime"), Icon("dynamic", "skk")}
=============================================================================
