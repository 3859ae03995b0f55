------------------------------ MODULE MCThemes ------------------------------
(***************************************************************************)
(* A provider of two board themes and one piece theme, at most three of a   *)
(* kind: one custom board theme or two custom piece themes reach the limit. *)
(***************************************************************************)
EXTENDS Themes

MCId == {"classic", "slate", "solid", "c1", "c2"}
MCBuiltin == [k \in Kind |-> IF k = "board" THEN {"classic", "slate"}
                             ELSE {"solid"}]
MCDefault == [k \in Kind |-> IF k = "board" THEN "classic" ELSE "solid"]

T(id, base, look) == [id |-> id, base |-> base, look |-> look]
D(kind, theme) == [kind |-> kind, theme |-> theme]
S(boards, pieces) == [k \in Kind |-> IF k = "board" THEN boards ELSE pieces]

\* Two boards and a second look of the first, two piece sets, one that shadows
\* a built-in identifier, one of an unknown base and one that is not valid.
MCDraft ==
  {D("board", T("c1", "classic", "light")), D("board", T("c1", "slate", "dark")),
   D("board", T("c2", "slate", "light")),
   D("piece", T("c1", "solid", "light")), D("piece", T("c2", "solid", "light")),
   D("board", T("slate", "classic", "light")),
   D("piece", T("c2", "c1", "light")), D("piece", T("c1", "solid", "broken"))}

\* A file that can be loaded, one that holds a theme twice and one that was
\* written when "slate" was not built in.
MCForeign ==
  {S({T("c1", "slate", "light")}, {T("c2", "solid", "dark")}),
   S({}, {T("c1", "solid", "light"), T("c1", "solid", "dark")}),
   S({T("slate", "classic", "dark")}, {})}

\* The selection of a session with custom themes.
MCRemembered == {MCDefault, [k \in Kind |-> IF k = "board" THEN "c1" ELSE "c2"]}

=============================================================================
