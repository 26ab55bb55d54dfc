----------------------------- MODULE OptionTable -----------------------------
(* What each function of the provider does with its options object and with *)
(* the arguments it takes as a tree or a list: one record per function.     *)
(*                                                                          *)
(*   keys      the option keys it knows                                     *)
(*   inputs    its arguments that may hold something unknown inside         *)
(*   defers    which arguments it searches for unknown values before it     *)
(*             reads any: "all", only the "options", or "none"              *)
(*   shallow   the search does not enter lists                              *)
(*   legacy    the contract of the dataformat family: a key it does not     *)
(*             know is ignored (elsewhere it is an error)                   *)
(*   lists     parts that hold a list or a map of scalars                   *)
(*   objects   parts that hold an object                                    *)
(*   trees     parts taken whatever their type is                           *)
(*   refuses   parts whose reader tests for unknown values itself: for an   *)
(*             unknown element in a list, at any depth elsewhere            *)
(*   nonzero   parts whose zero value ("", 0, the empty list) is an error   *)
(*   picky     parts with values of the right type that are errors too      *)
(*   nulls     parts whose typed null is read as the zero value             *)
(*   unguarded numbers read without a test for null, so that a typed null   *)
(*             is whatever the framework's nil *big.Float does              *)
(*   first     the loop over the options returns in its first iteration     *)
(*                                                                          *)
(* Left out: rules that relate two options of a call (parse_kv's separators *)
(* must differ) and what a function does with its settings.                 *)
EXTENDS Integers, FiniteSets

Fn(name, keys) ==
  [ name |-> name, keys |-> keys, inputs |-> {}, defers |-> "none",
    shallow |-> FALSE, legacy |-> FALSE, first |-> FALSE,
    lists |-> {}, objects |-> {}, trees |-> {}, refuses |-> {},
    nonzero |-> {}, picky |-> {}, nulls |-> {}, unguarded |-> {} ]

Searching(name, keys) == [Fn(name, keys) EXCEPT !.defers = "all"]

-----------------------------------------------------------------------------
(* encoding *)
base64encode == Searching("base64encode", {"url_safe", "padding"})
base32encode == Searching("base32encode", {"hex_alphabet", "padding"})
base32decode == Searching("base32decode", {"hex_alphabet"})
urlencode == [Fn("urlencode", {"mode"}) EXCEPT
                !.nonzero = {"mode"}, !.picky = {"mode"}]
urldecode == [urlencode EXCEPT !.name = "urldecode"]

-----------------------------------------------------------------------------
(* cel, oel and promql: every reader tests for unknown values as well *)
FormatKeys == {"wrap_on_column", "wrap_on_operators", "wrap_after_column_limit",
               "pretty", "indent", "always_comma"}
celformat == [Searching("celformat", FormatKeys) EXCEPT
                !.lists = {"wrap_on_operators"}, !.refuses = FormatKeys,
                !.nulls = {"wrap_on_operators"},
                !.nonzero = {"wrap_on_column"}, !.picky = {"wrap_on_column"}]
celencode == [celformat EXCEPT
                !.name = "celencode", !.inputs = {"expr"}, !.trees = {"expr"},
                !.refuses = @ \cup {"expr"}]
celdecode == [Searching("celdecode", {"notation"}) EXCEPT
                !.refuses = {"notation"}, !.nonzero = {"notation"},
                !.picky = {"notation"}]
celvalidate == [Searching("celvalidate", {"strict"}) EXCEPT
                !.refuses = {"strict"}]

EvalFormats == {"timestamp_format", "duration_format", "bytes_format"}
EvalKeys == {"vars", "cost_limit"} \cup EvalFormats
celevaluate == [Searching("celevaluate", EvalKeys) EXCEPT
                !.objects = {"vars"}, !.refuses = EvalKeys,
                !.nonzero = EvalFormats, !.picky = EvalKeys]

OelKeys == {"user", "groups", "group_ids", "strict"}
oelevaluate == [Searching("oelevaluate", OelKeys) EXCEPT
                !.lists = {"group_ids"}, !.objects = {"user", "groups"},
                !.refuses = OelKeys, !.nulls = {"group_ids"}]
promqlformat == [Searching("promqlformat", {"pretty"}) EXCEPT
                !.refuses = {"pretty"}]

-----------------------------------------------------------------------------
(* dataformat *)
Legacy(name, keys) == [Searching(name, keys) EXCEPT
                !.legacy = TRUE, !.inputs = {"value"}, !.trees = {"value"}]

jsonencode == [Legacy("jsonencode", {"indent", "escape_html"}) EXCEPT
                !.nulls = {"indent", "escape_html"}]
csvencode == [Legacy("csvencode", {"columns", "no_header"}) EXCEPT
                !.lists = {"columns"}, !.nulls = {"columns", "no_header"}]
hujsonencode == [Legacy("hujsonencode",
                        {"indent", "compact", "escape_html", "comments"}) EXCEPT
                !.trees = @ \cup {"comments"},
                !.nulls = {"indent", "compact", "escape_html"}]
kdlencode == [Legacy("kdlencode", {"version"}) EXCEPT
                !.picky = {"version"}, !.nulls = {"version"}]
plistencode == [Legacy("plistencode", {"format", "comments"}) EXCEPT
                !.trees = @ \cup {"comments"}, !.picky = {"format"},
                !.nulls = {"format"}]
regencode == [Legacy("regencode", {"comments"}) EXCEPT
                !.trees = @ \cup {"comments"}]

YamlStyles == {"multiline", "quote_style", "null_value"}
YamlFlags == {"sort_keys", "dedupe"}
YamlNumbers == {"indent", "flow_level"}
yamlencode == [Legacy("yamlencode", YamlStyles \cup YamlFlags \cup YamlNumbers
                                      \cup {"comments"}) EXCEPT
                !.trees = @ \cup {"comments"}, !.picky = YamlStyles,
                !.nulls = YamlStyles \cup YamlFlags, !.unguarded = YamlNumbers]

\* The functions with a tree for an argument and no options.
PlainEncoders ==
  { [Legacy(n, {}) EXCEPT !.legacy = FALSE] :
      n \in {"cborencode", "dotenvencode", "hclencode", "iniencode",
             "msgpackencode", "ndjsonencode", "vdfencode"} }

-----------------------------------------------------------------------------
(* color *)
color_distinct == Searching("color_distinct", {"lightness", "chroma", "hue_offset"})
color_convert == Searching("color_convert", {"hash", "uppercase"})

SingleKey(name, key) == [Searching(name, {key}) EXCEPT !.first = TRUE]
color_scheme == SingleKey("color_scheme", "angle")
color_mix == [SingleKey("color_mix", "space") EXCEPT
                !.nonzero = {"space"}, !.picky = {"space"}]
color_ramp == [SingleKey("color_ramp", "space") EXCEPT
                !.defers = "options", !.inputs = {"stops"}, !.lists = {"stops"},
                !.refuses = {"stops"}, !.nonzero = {"stops", "space"},
                !.picky = {"space"}]
color_nearest == [SingleKey("color_nearest", "metric") EXCEPT
                !.defers = "options", !.inputs = {"palette"},
                !.lists = {"palette"}, !.refuses = {"palette"},
                !.nonzero = {"palette", "metric"}, !.picky = {"metric"}]
color_readable_text == [SingleKey("color_readable_text", "candidates") EXCEPT
                !.lists = {"candidates"}, !.nonzero = {"candidates"},
                !.picky = {"candidates"}, !.nulls = {"candidates"}]

-----------------------------------------------------------------------------
(* text and identifiers *)
parse_kv == [Searching("parse_kv", {"pair_sep", "kv_sep", "trim", "unquote"}) EXCEPT
                !.shallow = TRUE, !.nonzero = {"pair_sep", "kv_sep"}]
slugify == Fn("slugify", {"language", "separator", "lowercase"})
qr_ascii == [Fn("qr_ascii", {"error_correction", "quiet_zone", "style"}) EXCEPT
                !.refuses = {"quiet_zone"},
                !.nonzero = {"error_correction", "style"},
                !.picky = {"error_correction", "quiet_zone", "style"}]
cowsay == [Fn("cowsay", {"action", "eyes", "tongue", "width"}) EXCEPT
                !.refuses = {"width"}, !.nonzero = {"action", "eyes"},
                !.picky = {"action", "eyes", "tongue", "width"}]
nanoid == [Fn("nanoid", {"alphabet", "size"}) EXCEPT
                !.refuses = {"size"}, !.nonzero = {"alphabet", "size"},
                !.picky = {"alphabet", "size"}]
petname == [Fn("petname", {"words", "separator"}) EXCEPT
                !.refuses = {"words"}, !.nonzero = {"words"},
                !.picky = {"words"}]

-----------------------------------------------------------------------------
(* compression, image and documents *)
base64brotli == [Fn("base64brotli", {"quality", "lgwin"}) EXCEPT
                !.refuses = {"quality", "lgwin"}, !.nonzero = {"lgwin"},
                !.picky = {"quality", "lgwin"}]
base64zopfli == [Fn("base64zopfli", {"iterations"}) EXCEPT
                !.refuses = {"iterations"}, !.nonzero = {"iterations"},
                !.picky = {"iterations"}]
svg_render == [Fn("svg_render", {"width", "height", "scale", "fonts"}) EXCEPT
                !.lists = {"fonts"}, !.refuses = {"width", "height"},
                !.picky = {"width", "height", "fonts"}, !.nulls = {"fonts"}]
typst_png == [Fn("typst_png", {"inputs", "files", "fonts", "ppi"}) EXCEPT
                !.trees = {"inputs"}, !.lists = {"files", "fonts"},
                !.refuses = {"inputs"}, !.picky = {"files", "fonts"},
                !.nulls = {"files", "fonts"}]

\* The other three formats have no resolution.
typst_vector(name) == [typst_png EXCEPT !.name = name, !.keys = @ \ {"ppi"}]

-----------------------------------------------------------------------------
SearchingFunctions ==
  { base64encode, base32encode, base32decode, celformat, celencode, celdecode,
    celvalidate, celevaluate, oelevaluate, promqlformat, jsonencode, csvencode,
    hujsonencode, kdlencode, plistencode, regencode, yamlencode, color_distinct,
    color_convert, parse_kv } \cup PlainEncoders

PlainFunctions ==
  { urlencode, urldecode, slugify, qr_ascii, cowsay, nanoid, petname, base64brotli,
    base64zopfli, svg_render, typst_png }
  \cup { typst_vector(n) : n \in {"typst_pdf", "typst_svg", "typst_html"} }

FirstOptionFunctions ==
  { color_scheme, color_mix, color_ramp, color_nearest, color_readable_text }
=============================================================================
