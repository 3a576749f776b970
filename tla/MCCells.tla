------------------------------ MODULE MCCells ------------------------------
(***************************************************************************)
(* Programs for Cells.                                                     *)
(***************************************************************************)
EXTENDS Cells

MCNames ==
  <<"t", "nil", "+", "*", "<", ">", "not", "length", "print", "if", "when", "cond", "progn", "and", "quote",
    "backquote", "comma", "setq", "list", "append", "car", "cdr", "eq",
    "inc", "pick", "step", "size", "twice", "mydouble", "a", "b", "n", "l", "v">>

Fun(f, params, body)   == [kind |-> "fun",   name |-> f,  params |-> params, body |-> body]
Macro(f, params, body) == [kind |-> "macro", name |-> f,  params |-> params,
                           body |-> Form("backquote", <<body>>)]
Line(form)             == [kind |-> "form",  name |-> "", params |-> <<>>,   body |-> form]

Plus(e, f)  == Form("+", <<e, f>>)
Hole(x)     == Form("comma", <<Sym(x)>>)
Size        == Form("size", <<Sym("v")>>)
Numbers(ns) == Form("list", [i \in DOMAIN ns |-> Num(ns[i])])

(* Macros that do not mention names of variables, no comparison as a value, *)
(* no data quoted in a macro.                                               *)
PlainProgram ==
  <<Macro("inc",  <<"a">>, Plus(Num(1), Hole("a"))),
    Fun("step", <<"n">>, Form("cond", <<List(<<Form("<", <<Sym("n"), Num(1)>>), Form("inc", <<Sym("n")>>)>>),
                                        List(<<Form("<", <<Sym("n"), Num(2)>>), Form("*", <<Num(2), Sym("n")>>)>>),
                                        List(<<Sym("t"), Sym("n")>>)>>)),
    Line(Form("step", <<Num(0)>>)),
    Line(Form("print", <<Form("inc", <<Num(4)>>)>>)),
    Macro("pick", <<"a", "b">>,
          Form("if", <<Form("<", <<Hole("a"), Num(2)>>), Form("inc", <<Hole("b")>>), Num(5)>>)),
    Fun("size", <<"l">>, Form("if", <<Form(">", <<Form("length", <<Sym("l")>>), Num(1)>>),
                                      Form("inc", <<Form("size", <<Form("cdr", <<Sym("l")>>)>>)>>),
                                      Num(1)>>)),
    Line(Form("setq", <<Sym("v"), Numbers(<<1, 3>>)>>))>>

PlainLines ==
  {Line(Form("step", <<Num(1)>>)),
   Line(Form("pick", <<Form("car", <<Sym("v")>>), Form("size", <<Sym("v")>>)>>)),
   Line(Form("setq", <<Sym("v"), Form("append", <<Sym("v"), Form("list", <<Form("step", <<Num(0)>>)>>)>>)>>)),
   Line(Form("setq", <<Sym("v"), Form("list", <<Form("size", <<Sym("v")>>), Sym("v")>>)>>)),
   Line(Form("when", <<Form("and", <<Form("eq", <<Form("list", <<Size, Num(3)>>), Numbers(<<2, 3>>)>>),
                                     Form("<", <<Size, Num(3)>>),
                                     Size>>),
                       Num(3)>>)),
   Line(Form("progn", <<Form("quote", <<Numbers(<<1>>)>>), Form("print", <<Form("not", <<Form("<", <<Num(1), Num(2)>>)>>)>>)>>)),
   Fun("step", <<"n">>, Form("progn", <<Form("setq", <<Sym("v"), Form("cdr", <<Sym("v")>>)>>), Form("inc", <<Sym("n")>>)>>))}

(* tests/m.cl:3-5,16, with double named twice *)
CapturedProgram ==
  <<Macro("twice", <<"a", "b">>,
          Plus(Plus(Hole("a"), Hole("a")), Plus(Hole("b"), Hole("b")))),
    Fun("mydouble", <<"a", "b">>, Form("twice", <<Sym("a"), Sym("b")>>))>>

CapturedLines == {Line(Form("mydouble", <<Num(14), Num(15)>>))}
=============================================================================
