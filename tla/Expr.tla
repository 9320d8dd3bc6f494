-------------------------------- MODULE Expr --------------------------------
(* Expressions of services (expr): an infix expression is compiled to a      *)
(* postfix program and run on a stack of strings.  The expression is written *)
(* here token by token, as a user might, and compiled and run after each.    *)
(*                                                                           *)
(* Numbers are fractions <<n, d>>.  Left out: the rounding to six decimals   *)
(* between two operators, ^, time, rand and the functions that are not       *)
(* rational (they differ from abs and floor in their arithmetic only), and   *)
(* how a string is cut into tokens.                                          *)
(* Everything here starts with X or names a function of the code, because    *)
(* this module is checked together with others.                              *)
EXTENDS Integers, Sequences, SequencesExt, FiniteSetsExt, AggrStatus

CONSTANTS
    XLiterals, XVars, XObjs,  \* tokens: numbers, variables, elements
    XValue,                   \* the fraction a literal or variable stands for
    XLeaves,                  \* elements -> the services under it, in order
    XResult,                  \* services -> their result, a fraction or XBad
    XStatus,                  \* services -> their status
    XOps, XFuncs, XAggs,      \* BOUND: the operators to use
    XMaxLen                   \* BOUND: tokens of an expression

VARIABLES tokens, open, complete
    \* the expression so far, its open brackets, whether it could end here
exprVars == <<tokens, open, complete>>

XBad == <<0, 0>>

-----------------------------------------------------------------------------
(* How tightly an operator binds; a bracket on the stack binds least.        *)
XPrec(t) == CASE t = "*" -> 15 [] t = "/" -> 14 [] t = "%" -> 13
              [] t \in {"+", "-"} -> 12 [] t \in {"(", ")"} -> 0 [] OTHER -> 20

XBinary  == {"+", "-", "*", "/", "%"}
XUnary   == {"abs", "floor"}
XCounts  == {"COUNT", "NCOUNT", "NUP", "NDOWN", "NOVERRIDE"}
XTotals  == {"SUM", "NSUM", "AVE", "NAVE", "MIN", "NMIN", "MAX", "NMAX"}
XIsOp(t) == t \in XBinary \cup XUnary \cup XCounts \cup XTotals

(* Dijkstra's stack: c.out is the output queue, c.ops the stack.             *)
Popped(c, k) == [c EXCEPT !.ops = SubSeq(@, 1, k),
                          !.out = @ \o Reverse(SubSeq(c.ops, k + 1, Len(c.ops)))]

LastIn(c, kept) == Max({k \in DOMAIN c.ops : c.ops[k] \in kept} \cup {0})

CloseBracket(c) ==
    LET k == LastIn(c, {"("})
        p == Popped(c, k)
    IN  IF k = 0 THEN [p EXCEPT !.mismatch = TRUE]
        ELSE [p EXCEPT !.ops = SubSeq(c.ops, 1, k - 1)]

BugPushOp(c, t) ==    \* equal operators from the right
    [Popped(c, LastIn(c, {o \in Range(c.ops) : XPrec(o) <= XPrec(t)})) EXCEPT !.ops = Append(@, t)]

PushOp(c, t) ==
    [Popped(c, LastIn(c, {o \in Range(c.ops) : XPrec(o) < XPrec(t)})) EXCEPT !.ops = Append(@, t)]

ParseToken(c, t) ==
    CASE c.mismatch -> c
      [] t = "("    -> [c EXCEPT !.ops = Append(@, t)]
      [] t = ")"    -> CloseBracket(c)
      [] XIsOp(t)   -> PushOp(c, t)
      [] OTHER      -> [c EXCEPT !.out = Append(@, t)]

(* At the end an open bracket goes to the output like an operator.           *)
parse(toks) == Popped(FoldLeft(ParseToken, [out |-> <<>>, ops |-> <<>>, mismatch |-> FALSE], toks), 0)

-----------------------------------------------------------------------------
(* What is on the value stack: a token, or a number that was computed.       *)
Word(t)   == [word |-> t, num |-> XBad]
Number(q) == [word |-> "", num |-> q]

XAbs(n) == IF n < 0 THEN -n ELSE n
XInt(q) == IF (q[1] < 0) = (q[2] < 0) THEN XAbs(q[1]) \div XAbs(q[2]) ELSE - (XAbs(q[1]) \div XAbs(q[2]))
XMod(a, b) == IF a < 0 THEN - ((-a) % XAbs(b)) ELSE a % XAbs(b)
XFloor(q) == IF q[2] > 0 THEN q[1] \div q[2] ELSE (- q[1]) \div (- q[2])

Plus(a, b)  == <<a[1] * b[2] + b[1] * a[2], a[2] * b[2]>>
Less(a, b)  == (a[1] * b[2] < b[1] * a[2]) = (a[2] * b[2] > 0)

(* Division by nothing gives 0, in the code.                                 *)
Apply2(op, b, a) ==
    CASE b = XBad \/ a = XBad -> XBad
      [] op = "+" -> Plus(b, a)
      [] op = "-" -> Plus(b, <<- a[1], a[2]>>)
      [] op = "*" -> <<b[1] * a[1], b[2] * a[2]>>
      [] op = "/" -> IF a[1] = 0 THEN <<0, 1>> ELSE <<b[1] * a[2], b[2] * a[1]>>
      [] op = "%" -> IF XInt(a) = 0 THEN <<0, 1>> ELSE <<XMod(XInt(b), XInt(a)), 1>>

Apply1(f, a) ==
    CASE a = XBad    -> XBad
      [] f = "abs"   -> <<XAbs(a[1]), XAbs(a[2])>>
      [] f = "floor" -> <<XFloor(a), 1>>

(* The results of the services under an element that are numbers; none of an *)
(* element that does not exist.                                              *)
resultList(obj) ==
    IF obj \in XObjs THEN SelectSeq([i \in DOMAIN XLeaves[obj] |-> XResult[XLeaves[obj][i]]], LAMBDA q : q # XBad)
    ELSE <<>>

statusCount(obj, Which) ==
    IF obj \in XObjs THEN Cardinality({i \in DOMAIN XLeaves[obj] : XStatus[XLeaves[obj][i]] \in Which}) ELSE 0

Aggregate(f, obj) ==
    LET rl  == resultList(obj)
        sum == FoldLeft(Plus, <<0, 1>>, rl)
    IN  CASE f \in {"COUNT", "NCOUNT"} -> <<Len(rl), 1>>
          [] f = "NUP"       -> <<statusCount(obj, {CLEAR, OVERRIDE}), 1>>
          [] f = "NDOWN"     -> <<statusCount(obj, Status \ {CLEAR, OVERRIDE, UNKNOWN}), 1>>
          [] f = "NOVERRIDE" -> <<statusCount(obj, {OVERRIDE}), 1>>
          [] rl = <<>>       -> XBad
          [] f \in {"SUM", "NSUM"} -> sum
          [] f \in {"AVE", "NAVE"} -> <<sum[1], sum[2] * Len(rl)>>
          [] f \in {"MIN", "NMIN"} -> FoldLeft(LAMBDA m, q : IF Less(q, m) THEN q ELSE m, rl[1], rl)
          [] f \in {"MAX", "NMAX"} -> FoldLeft(LAMBDA m, q : IF Less(m, q) THEN q ELSE m, rl[1], rl)

(* popf: a number, the value of a variable or of a literal, or the result of *)
(* an element.                                                               *)
Numeric(v) ==
    CASE v.num # XBad -> v.num
      [] v.word \in DOMAIN XResult -> XResult[v.word]
      [] v.word \in XLiterals \cup XVars -> XValue[v.word]
      [] OTHER -> XBad

Nth(s, k) == IF Len(s) >= k THEN s[Len(s) - k + 1] ELSE Word("")
Drop(s, k) == SubSeq(s, 1, Len(s) - Min({k, Len(s)}))

Step(st, op) ==
    LET top == Nth(st.s, 1)
        res == CASE op \in XBinary -> Apply2(op, Numeric(Nth(st.s, 2)), Numeric(top))
                 [] op \in XUnary  -> Apply1(op, Numeric(top))
                 [] OTHER          -> Aggregate(op, top.word)
    IN  CASE st.failed      -> st
          [] ~ XIsOp(op)    -> [st EXCEPT !.s = Append(@, Word(op))]
          [] XIsOp(op) /\ res = XBad -> [st EXCEPT !.failed = TRUE]
          [] OTHER -> [st EXCEPT !.s = Append(Drop(@, IF op \in XBinary THEN 2 ELSE 1), Number(res))]

(* RunExprF: what is on top at the end is parsed as a number, and variables  *)
(* and elements are not: an expression of one of them alone is an error.     *)
RunExprF(prog) ==
    LET st  == FoldLeft(Step, [s |-> <<>>, failed |-> FALSE], prog)
        top == Nth(st.s, 1)
    IN  IF st.failed THEN XBad
        ELSE IF top.num # XBad THEN top.num
        ELSE IF top.word \in XLiterals THEN XValue[top.word] ELSE XBad

Calc(toks) == LET c == parse(toks) IN IF c.mismatch THEN XBad ELSE RunExprF(c.out)

-----------------------------------------------------------------------------
(* The user writes an expression from left to right.                         *)
ExprInit == tokens = <<>> /\ open = 0 /\ complete = FALSE

Write(toks, brackets, ends) ==
    /\ open >= 0 /\ Len(tokens) + Len(toks) <= XMaxLen
    /\ tokens' = tokens \o toks
    /\ open' = open + brackets
    /\ complete' = ends

Operand  == ~ complete /\ \E t \in XLiterals \cup XVars \cup XObjs : Write(<<t>>, 0, TRUE)
OfGroup  == ~ complete /\ \E f \in XAggs, o \in XObjs : Write(<<f, "(", o, ")">>, 0, TRUE)
Bracket  == ~ complete /\ Write(<<"(">>, 1, FALSE)
Function == ~ complete /\ \E f \in XFuncs : Write(<<f, "(">>, 1, FALSE)
Operator == complete /\ \E t \in XOps : Write(<<t>>, 0, FALSE)
Closing  == complete /\ open > 0 /\ Write(<<")">>, -1, TRUE)
Excess   == complete /\ open = 0 /\ Write(<<")">>, -1, TRUE)

ExprNext == Operand \/ OfGroup \/ Bracket \/ Function \/ Operator \/ Closing \/ Excess

ExprSpec == ExprInit /\ [][ExprNext]_exprVars

-----------------------------------------------------------------------------
(* What an expression means: the operator that binds least, the last one of  *)
(* several, is applied to what is left and right of it.  (The order is the   *)
(* code's: * binds more tightly than /, so 8 / 2 * 2 is 2.)                  *)
Level == [t \in XBinary |-> CASE t \in {"+", "-"} -> 1 [] t = "%" -> 2 [] t = "/" -> 3 [] t = "*" -> 4]

Depth(i, k) == Cardinality({j \in i..k : tokens[j] = "("}) - Cardinality({j \in i..k : tokens[j] = ")"})

Outside(i, j) == {k \in i..j : tokens[k] \in XBinary /\ Depth(i, k) = 0}

Meaning ==
    LET n == Len(tokens)
        LastLoosest(S) == CHOOSE k \in S : \A m \in S :
                            Level[tokens[k]] < Level[tokens[m]]
                              \/ (Level[tokens[k]] = Level[tokens[m]] /\ m <= k)
        v[i \in 1..n, j \in 1..n] ==
            LET ops == Outside(i, j)
                k   == LastLoosest(ops)
            IN  CASE ops # {} -> Apply2(tokens[k], v[i, k - 1], v[k + 1, j])
                  [] ops = {} /\ i = j -> Numeric(Word(tokens[i]))
                  [] ops = {} /\ tokens[i] = "(" -> v[i + 1, j - 1]
                  [] tokens[i] \in XUnary -> Apply1(tokens[i], v[i + 1, j])
                  [] OTHER -> Aggregate(tokens[i], tokens[i + 2])
    IN  v[1, n]

(* An expression that is complete is worth what it means, brackets, levels   *)
(* and the order of equal operators respected; one that is not, or has a     *)
(* bracket too few or too many, is an error, never a wrong number (parse,    *)
(* RunExpr, popf).                                                           *)
Equal(a, b) == (a = XBad) = (b = XBad) /\ a[1] * b[2] = b[1] * a[2]

WorthWhatItMeans ==
    IF complete /\ open = 0 /\ (\E k \in DOMAIN tokens : XIsOp(tokens[k]))
    THEN Equal(Calc(tokens), Meaning)
    ELSE Calc(tokens) = XBad \/ (complete /\ \E k \in DOMAIN tokens : tokens[k] \in XLiterals)
=============================================================================
