CONSTANTS
    Char <- MCChar
    AsciiChars <- MCAscii
    Utf8 <- MCUtf8
    SpecialForms <- MCSpecialForms
    StdlibMacros <- MCStdlibMacros
    Primitives <- MCPrimitives
    NilMapping <- MCNilMapping
    AsciiTokenReplacements <- MCAsciiTokenReplacements
    Whitespace <- MCWhitespace
    Inputs <- MCInputsNoLeadingKeyword
SPECIFICATION Spec
PROPERTY ImplementsTokenRewrite
CHECK_DEADLOCK FALSE
