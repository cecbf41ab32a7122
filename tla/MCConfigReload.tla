--------------------------- MODULE MCConfigReload ---------------------------
(***************************************************************************)
(* Three configs: they select different sheets, and differ in the order of *)
(* their rules, which overlap; one rule's timeout is -1 only after it was  *)
(* truncated, one block has no app.  Two palettes, a name missing in one.  *)
(***************************************************************************)
EXTENDS ConfigReload

MCLower == [A |-> "a", B |-> "b", Top |-> "top"]

Block(app, timeout, skip) == [app |-> app, timeout |-> timeout, skip_popup |-> skip]

Values(anchor, layer, timeout, path, rules) ==
    [anchor |-> anchor, layer |-> layer, default_timeout |-> timeout,
     colors_path |-> path, rules |-> rules]

Plain  == Values({"top", "right"}, "overlay", 5, "", <<>>)
Custom == Values({"Top", "centre"}, "Top", 9, "custom.css",
                 <<Block(<<>>, 3, 1), Block(<<"a", "b">>, 15, 0), Block(<<"A">>, 2, 1)>>)
Other  == Values({"centre"}, "bottom", 0, "",
                 <<Block(<<"b">>, -1, 1), Block(<<"B", "a">>, 0, 0)>>)

MCConfigs == {Plain, Custom, Other}

Define(name, hex) == [name |-> name, hex |-> hex]

MCPalettes == {<<Define("surface", <<1, 2, 3>>), Define("error", <<15, 0, 0, 0, 0>>),
                 Define("error", <<15, 0, 0, 0, 0, 0>>)>>,
               <<Define("surface", <<0, 0, 0, 0, 0, 0, 8, 0>>), Define("surface", <<4, 5, 6>>)>>}

MCAppNames == UNION {[1..n -> {"a", "A", "b", "B", "c"}] : n \in 0..3}
=============================================================================
