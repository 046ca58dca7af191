----------------------------- MODULE ApiFunctions -----------------------------
(***************************************************************************)
(* The functions of the 4D plugin API, section by section, each with the   *)
(* class of functions whose programs it shares; PluginApi says what these  *)
(* are.  "plain" is one call of the engine, "silent" none.                 *)
(***************************************************************************)
Are(class, names) == names \X {class}

\* FourDPackex and PA_GetLastError.
Main ==
  Are("silent", {"FourDPackex", "PA_GetLastError"})

\* Handles.
HandleManager ==
  Are("plain", {"PA_NewHandle", "PA_DisposeHandle", "PA_SetHandleSize", "PA_GetHandleSize",
      "PA_LockHandle", "PA_GetHandleState", "PA_SetHandleState", "PA_UnlockHandle"})
    \cup Are("silent", {"PA_MoveBlock"})

\* Strings.
Unistrings ==
  Are("plain", {"PA_CreateUnistring", "PA_DisposeUnistring", "PA_SetUnistring"})
    \cup Are("silent", {"PA_GetUnistring", "PA_GetUnistringLength"})
    \cup Are("compare", {"PA_CompareUniBuffers", "PA_CompareUnistrings"})
    \cup Are("pointer", {"PA_CompareUnichars"})

CopiedStrings ==
  Are("silent", {"PA_GetUnicharsLength", "PA_CopyUnichars"})

\* Pictures.
Pictures ==
  Are("plain", {"PA_CreatePicture", "PA_CreateNativePictureForScreen",
      "PA_CreateNativePictureForPrinting", "PA_GetPictureData", "PA_DuplicatePicture"})
    \cup Are("raw", {"PA_DisposePicture"})

\* Objects and collections.
Objects ==
  Are("plain", {"PA_GetCollectionElement", "PA_SetCollectionElement"})
    \cup Are("silent", {"PA_GetCollectionVariable"})
    \cup Are("createObject", {"PA_CreateObject"})
    \cup Are("orNothing", {"PA_DisposeObject", "PA_DisposeCollection"})
    \cup Are("commandOrNothing", {"PA_DuplicateObject"})
    \cup Are("command", {"PA_CreateCollection"})
    \cup Are("length", {"PA_GetCollectionLength"})

\* Properties of objects, JSON.
Properties ==
  Are("plain", {"PA_GetObjectProperty", "PA_SetObjectProperty"})
    \cup Are("command", {"PA_RemoveObjectProperty", "PA_HasObjectProperty",
      "PA_GetObjectPropertyType"})
    \cup Are("jsonParse", {"PA_JsonParse"})
    \cup Are("stringify", {"PA_JsonStringify"})

\* Internal functions.
Conversions ==
  Are("silent", {"StripInterprocessVariableName"})
    \cup Are("orNothing", {"ToUserData"})
    \cup Are("intoValue", {"FromUserData"})

\* The application, its files, packages and settings.
Application ==
  Are("plain", {"PA_Get4DVersion", "PA_IsDemoVersion", "PA_IsDatabaseLocked", "PA_IsCompiled",
      "PA_Is4DClient", "PA_Is4DServer", "PA_IsWebProcess", "PA_GetMessagesStatus",
      "PA_SetMessagesStatus", "PA_SetThermometerRect", "PA_Is4DMono"})

Folders ==
  Are("plain", {"PA_GetStructureName", "PA_GetDataName", "PA_GetApplicationFullPath",
      "PA_GetStructureFullPath", "PA_FindPackage", "PA_PackageInfo", "PA_Quit4D",
      "PA_Get4DPreferencesFilePath", "PA_Get4Dfolder", "PA_GetPlatformInterface"})

Platform ==
  Are("plain", {"PA_GetToolBarInfo", "PA_ShowHideToolBar", "PA_GetTipsEnabled", "PA_SetTipsEnabled",
      "PA_CheckFreeStack", "PA_GetCenturyInfo", "PA_Get4DHInstance"})

\* Virtual structure, automatic relations.
Structure ==
  Are("plain", {"PA_VirtualStructureDefined", "PA_GetTrueTableNumber"})
    \cup Are("silent", {"PA_UseVirtualStructure", "PA_UseRealStructure",
      "PA_UseAutomaticRelations"})
    \cup Are("raw", {"PA_GetTrueFieldNumber", "PA_GetVirtualTableNumber",
      "PA_GetVirtualFieldNumber"})

\* Records and the current selection.
Records ==
  Are("plain", {"PA_CreateRecord", "PA_SaveRecord", "PA_NextRecord", "PA_PreviousRecord",
      "PA_GotoSelectedRecord", "PA_SelectedRecordNumber", "PA_RecordsInSelection",
      "PA_DeleteSelection", "PA_FirstRecord", "PA_BeforeSelection"})

CurrentRecord ==
  Are("plain", {"PA_EndSelection", "PA_CreateElementsFromXMLDefinition", "PA_GotoRecord",
      "PA_RecordNumber", "PA_Locked", "PA_ReadWrite", "PA_ReadOnly"})

Relations ==
  Are("plain", {"PA_LoadRecord", "PA_RelateOne", "PA_RelateMany", "PA_RelateOneSelection",
      "PA_RelateManySelection"})

\* Tables and fields.
Tables ==
  Are("plain", {"PA_CountTables", "PA_GetTableAndFieldNumbers", "PA_GetTableName",
      "PA_IsTableVisible", "PA_CountFields", "PA_GetFieldName"})

FieldKinds ==
  Are("plain", {"PA_GetFieldProperties"})
    \cup Are("silent", {"UnifyVarKind"})
    \cup Are("properties", {"PA_GetPointerValueProperties"})

FieldLists ==
  Are("plain", {"PA_GetFieldRelation", "PA_GetFieldList", "PA_TableAndFieldPopup", "PA_FieldPopup"})

\* Order by.
OrderBy ==
  Are("orderBy", {"PA_OrderBy"})
    \cup Are("openLines", {"PA_OpenOrderBy"})
    \cup Are("addOrder", {"PA_AddFieldToOrderBy"})
    \cup Are("closeLines", {"PA_CloseOrderBy"})

\* Query.
Query ==
  Are("openLines", {"PA_OpenQuery"})
    \cup Are("addQuery", {"AddQuery"})

QueryLines ==
  Are("addQuery", {"PA_QueryString", "PA_QueryReal", "PA_QueryTime", "PA_QueryDate",
      "PA_QueryLongint", "PA_QueryInteger", "PA_QueryBoolean"})
    \cup Are("closeLines", {"PA_CloseQuery"})

\* Parameters of a command.
GetParameters ==
  Are("plain", {"PA_GetPointerParameter"})
    \cup Are("silent", {"PA_GetShortParameter", "PA_GetLongParameter", "PA_GetDoubleParameter",
      "PA_GetStringParameter", "PA_GetPictureParameter", "PA_GetBlobHandleParameter",
      "PA_GetDateParameter", "PA_GetTimeParameter", "PA_GetVariableParameter"})
    \cup Are("orNothing", {"PA_GetBlobParameter"})

PointerParameters ==
  Are("silent", {"PA_GetPointerKind", "PA_GetObjectParameter", "PA_GetCollectionParameter"})
    \cup Are("pointer", {"PA_GetPointerValue"})
    \cup Are("setPointer", {"PA_SetPointerValue"})

SetParameters ==
  Are("silent", {"PA_SetShortParameter", "PA_SetLongParameter", "PA_SetDoubleParameter",
      "PA_SetBlobHandleParameter", "PA_SetDateParameter", "PA_SetTimeParameter"})
    \cup Are("setPicture", {"PA_SetPictureParameter"})
    \cup Are("intoValue", {"PA_SetBlobParameter"})
    \cup Are("orNothing", {"PA_SetVariableParameter"})

\* Its result.
ReturnValues ==
  Are("plain", {"PA_ReturnString"})
    \cup Are("silent", {"PA_ReturnShort", "PA_ReturnLong", "PA_ReturnDouble", "PA_ReturnPicture",
      "PA_ReturnBlobHandle", "PA_ReturnDate", "PA_ReturnTime", "PA_ReturnObject",
      "PA_ReturnCollection"})
    \cup Are("intoValue", {"PA_ReturnBlob"})

\* Area events.
AreaProperties ==
  Are("silent", {"PA_GetAreaEvent", "PA_GetAreaRect", "PA_GetAreaName", "PA_GetAdvancedProperties",
      "PA_SetAreaReference"})
    \cup Are("areaEvent", {"PA_GetPluginProperties", "PA_SetAdvancedProperties",
      "PA_GetAdvancedPropertiesToDispose"})

AreaSelection ==
  Are("silent", {"PA_GetAreaReference"})
    \cup Are("areaEvent", {"PA_SetAreaFocusable", "PA_IsActivated", "PA_IsDeActivated",
      "PA_AcceptSelect", "PA_AcceptDeselect", "PA_GetDragAndDropInfo", "PA_GetDragPositions"})

DragAndDrop ==
  Are("plain", {"PA_DragAndDrop", "PA_GetDragAndDropPasteboard", "PA_IsPasteboardDataAvailable",
      "PA_GetPasteboardData", "PA_GetPasteboardDataSize", "PA_SetPasteboardData"})
    \cup Are("areaEvent", {"PA_CustomizeDragOver"})

DragContext ==
  Are("plain", {"PA_GetDragAndDropVariable"})
    \cup Are("silent", {"PA_GetDragAndDropKind", "PA_GetDragAndDropTableField", "PA_GetHDC"})
    \cup Are("areaEvent", {"PA_GetDragAndDropContext", "PA_AllowDrop", "PA_GetClick"})

Keyboard ==
  Are("areaEvent", {"PA_GetMouseWheelIncrement"})
    \cup Are("keyEvent", {"PA_GetKey"})

AreaAnswers ==
  Are("silent", {"PA_DontTakeEvent"})
    \cup Are("areaEvent", {"PA_CustomizeDesignMode", "PA_SetMenuIcon",
      "PA_SetAdvancedPropertiesEditable", "PA_CallPluginAreaMethod", "PA_GotoNextField",
      "PA_GotoPreviousField"})

AreaWeb ==
  Are("areaEvent", {"PA_PublishWebPicture", "PA_SendHTML", "PA_SendWebPicture",
      "PA_GetWebDataToDispose", "PA_GetPageChange"})

AreaDrawing ==
  Are("areaEvent", {"PA_RequestRedraw"})
    \cup Are("redraw", {"PA_RedrawArea"})
    \cup Are("orNothing", {"PA_GetAreaPortBounds"})

\* Fields.
GetFields ==
  Are("plain", {"PA_GetStringField", "PA_GetBlobHandleField", "PA_GetPictureField",
      "PA_GetRealField", "PA_GetLongintField", "PA_GetTimeField"})
    \cup Are("toBuffer", {"PA_GetBlobField"})

GetOtherFields ==
  Are("plain", {"PA_GetIntegerField", "PA_GetDateField", "PA_GetBooleanField", "PA_GetObjectField"})

SetFields ==
  Are("plain", {"PA_SetStringField", "PA_SetBlobHandleField", "PA_SetPictureField",
      "PA_SetRealField", "PA_SetLongintField", "PA_SetIntegerField"})
    \cup Are("intoField", {"PA_SetBlobField"})

SetOtherFields ==
  Are("plain", {"PA_SetTimeField", "PA_SetDateField", "PA_SetBooleanField", "PA_SetObjectField"})

\* Variables.
CreateVariable ==
  Are("createVariable", {"PA_CreateVariable"})

GetVariables ==
  Are("plain", {"PA_GetVariable", "PA_GetStringVariable"})
    \cup Are("silent", {"PA_GetVariableKind", "PA_GetBlobHandleVariable", "PA_GetPictureVariable",
      "PA_GetRealVariable", "PA_GetLongintVariable", "PA_GetTimeVariable"})
    \cup Are("properties", {"PA_GetPointerValueKind"})
    \cup Are("orNothing", {"PA_GetBlobVariable"})

GetOtherVariables ==
  Are("silent", {"PA_GetDateVariable", "PA_GetBooleanVariable", "PA_GetObjectVariable"})

SetVariables ==
  Are("plain", {"PA_SetVariable", "PA_SetBlobHandleVariable"})
    \cup Are("silent", {"PA_SetStringVariable", "PA_SetPictureVariable", "PA_SetRealVariable",
      "PA_SetLongintVariable", "PA_SetTimeVariable", "PA_SetDateVariable", "PA_SetBooleanVariable",
      "PA_SetObjectVariable", "PA_SetCollectionVariable"})
    \cup Are("intoValue", {"PA_SetBlobVariable"})

References ==
  Are("plain", {"PA_ClearVariable"})
    \cup Are("silent", {"PA_SetOperationVariable", "PA_SetTableFieldVariable",
      "PA_SetVariableOrFieldReference"})
    \cup Are("raw", {"PA_CopyVariable"})

\* Arrays.
ArraySize ==
  Are("silent", {"PA_GetArrayNbElements"})
    \cup Are("resize", {"PA_ResizeArray"})

GetElements ==
  Are("silent", {"PA_GetArrayCurrent", "PA_SetArrayCurrent", "PA_IsArrayVariable",
      "PA_GetIntegerInArray", "PA_GetLongintInArray", "PA_GetTimeInArray", "PA_GetRealInArray",
      "PA_GetDateInArray", "PA_GetStringInArray"})

GetOtherElements ==
  Are("silent", {"PA_GetPictureInArray", "PA_GetBlobInArray", "GetBitInTable", "SetBitInTable",
      "PA_GetBooleanInArray", "PA_GetArrayInArray", "PA_GetPointerInArray", "PA_GetObjectInArray"})

SetElements ==
  Are("silent", {"PA_SetIntegerInArray", "PA_SetLongintInArray", "PA_SetTimeInArray",
      "PA_SetRealInArray", "PA_SetDateInArray"})
    \cup Are("orNothing", {"PA_SetStringInArray"})

ReplaceElements ==
  Are("silent", {"PA_SetBooleanInArray", "PA_SetPointerInArray"})
    \cup Are("setPictureInArray", {"PA_SetPictureInArray"})
    \cup Are("setInArray", {"PA_SetBlobInArray", "PA_SetObjectInArray"})
    \cup Are("orNothing", {"PA_SetArrayInArray"})

\* Formats, dates and times.
Formats ==
  Are("plain", {"PA_FormatString", "PA_FormatReal", "PA_FormatLongint", "PA_FormatDate",
      "PA_FormatTime", "PA_EvalReal", "PA_EvalLongint", "PA_EvalDate", "PA_EvalTime"})

\* Character sets, import and export.
Charsets ==
  Are("plain", {"PA_ConvertStrings", "PA_ConvertCharsetToCharset", "PA_GetExportFilter",
      "PA_GetImportFilter"})
    \cup Are("compare", {"PA_CompareMacStrings"})

\* Packed records and named selections.
Selections ==
  Are("plain", {"PA_CopyNamedSelection", "PA_CutNamedSelection", "PA_UseNamedSelection",
      "PA_ClearNamedSelection"})
    \cup Are("packedGet", {"PA_GetPackedRecord"})
    \cup Are("packedSet", {"PA_SetPackedRecord"})

\* Sets.
Sets ==
  Are("raw", {"PA_CreateEmptySet", "PA_CreateSet", "PA_UseSet", "PA_DeleteSet", "PA_AddToSet"})

\* Methods.
Methods ==
  Are("plain", {"PA_CreateMethod", "PA_ModifyMethod", "PA_ExecuteMethod", "PA_ExecuteFunction"})

\* Tokens.
Tokens ==
  Are("tokenize", {"PA_Tokenize"})
    \cup Are("packedSet", {"PA_Detokenize", "PA_ExecuteTokens", "PA_ExecuteTokensAsFunction"})
    \cup Are("swap", {"PA_ByteSwapTokens"})

\* Methods and commands by number.
Commands ==
  Are("plain", {"PA_GetMethodID", "PA_GetCommandID", "PA_GetCommandName"})
    \cup Are("method", {"PA_ExecuteMethodByID"})
    \cup Are("command", {"PA_ExecuteCommandByID"})

\* Localisation, locks.
Localisation ==
  Are("plain", {"PA_LocaliseStringByID", "PA_LocaliseString", "PA_LockDatabase",
      "PA_UnlockDatabase"})

\* Printing.
Printing ==
  Are("plain", {"PA_TryToOpenPrinterSession", "PA_OpenPrinterSession", "PA_ClosePrinterSession"})
    \cup Are("printInfo", {"PA_GetCarbonPrintSettings", "PA_GetCarbonPageFormat",
      "PA_GetWindowsPRINTDLG"})
    \cup Are("orNothing", {"PA_GetWindowsPrintingDC"})

\* Processes.
Processes ==
  Are("plain", {"PA_CountActiveProcess", "PA_CountTotalProcess", "PA_GetProcessInfo",
      "PA_FreezeProcess", "PA_UnfreezeProcess", "PA_KillProcess", "PA_PutProcessToSleep",
      "PA_GetCurrentProcessNumber", "PA_GetWindowProcess", "PA_GetFrontWindowProcess"})
    \cup Are("forgets", {"PA_IsProcessDying"})

ProcessTurns ==
  Are("plain", {"PA_SetWindowProcess", "PA_Yield", "PA_YieldAbsolute", "PA_WaitNextEvent",
      "PA_UpdateProcessVariable", "PA_BringProcessToFront", "PA_NewProcess", "PA_PostMacEvent",
      "PA_RunInMainProcess"})

\* Documents and data on the server.
Documents ==
  Are("packedGet", {"PA_ReceiveDocumentFromServer"})
    \cup Are("raw", {"PA_SendDocumentToServer", "PA_DocumentExistOnServer", "PA_SendDataToServer"})
    \cup Are("receive", {"PA_ReceiveDataFromServer"})

\* Resources.
CreateResources ==
  Are("plain", {"PA_CreateResourceFromHandle", "PA_RemoveResourceByID", "PA_RemoveResourceByName"})
    \cup Are("intoField", {"PA_CreateResource"})

GetResources ==
  Are("plain", {"PA_GetResourceHandle", "PA_WriteResourceHandle", "PA_LockResource",
      "PA_UnlockResource"})
    \cup Are("toBuffer", {"PA_GetResource"})
    \cup Are("setResource", {"PA_SetResource"})

LockResources ==
  Are("plain", {"PA_LockResourceHandle", "PA_UnlockResourceHandle", "PA_ReleaseResourceHandle",
      "PA_ReleaseResource", "PA_CountResources", "PA_CountResourceKinds",
      "PA_GetIndexedResourceKind"})
    \cup Are("toBuffer", {"PA_GetIndexedResource"})

ResourceNames ==
  Are("plain", {"PA_GetResourceName", "PA_SetResourceName", "PA_GetResourceSize",
      "PA_GetResourceTimeStamp"})

ResourceLists ==
  Are("idList", {"PA_GetResourceIDList", "PA_GetResourceKindList"})

ResourceFiles ==
  Are("plain", {"PA_OpenResFile", "PA_CreateResFile", "PA_GetDatabaseResFile", "PA_UpdateResFile",
      "PA_UseResFile", "PA_CloseResFile", "PA_GetUniqueResID"})
    \cup Are("raw", {"PA_DetachResource"})

\* Users.
Users ==
  Are("plain", {"PA_GetCurrentUserID", "GetUsersOrGroupArray", "PA_GetUsersArray",
      "PA_GetGroupsArray", "PA_GetSerialKey", "PA_GetRegisteredUserName", "PA_CountConnectedUsers",
      "PA_GetMaxAllowedUsers"})
    \cup Are("forgets", {"PA_GetUserName", "PA_GetRegisteredUserCompany"})

\* Plug-in windows.
Windows ==
  Are("plain", {"PA_UpdateVariables", "PA_GetHWND", "PA_GetMainWindowHWND", "PA_GetWindowPtr",
      "PA_OpenPluginWindow", "PA_ClosePluginWindow", "PA_SetPluginWindowTitle",
      "PA_SetPluginAreaClipMode", "PA_GetCurrentPage"})

NewWindows ==
  Are("plain", {"PA_CloseWindow", "PA_SetWindowFocusable", "PA_IsWindowFocusable",
      "PA_GetWindowFocused", "PA_SetWindowFocused", "PA_IsWindowFocused", "PA_CreateTip"})
    \cup Are("newWindow", {"PA_NewWindow"})

Menus ==
  Are("plain", {"PA_GotoArea", "PA_UpdateEditMenu", "PA_GetCurrentTEHandle"})

\* Web server.
Web ==
  Are("plain", {"PA_StartWebServer", "PA_StopWebServer", "PA_GetWebServerInfo", "PA_SetWebTCPport",
      "PA_GetWebContext", "PA_GetWebTimeOut", "PA_SetWebTimeOut", "PA_OpenURL"})

\* Editors and alerts.
Editors ==
  Are("plain", {"PA_Install4DWriteSpeller", "PA_Get4DWriteSpellerProcPtr", "PA_FormulaEditor",
      "PA_QueryDialog", "PA_OrderByDialog", "PA_MethodEditor"})
    \cup Are("keepsCopy", {"PA_PictureEditor"})

Alerts ==
  Are("plain", {"PA_Alert", "PA_CharAlert", "PA_Confirm", "PA_Request", "PA_AboutDialog"})
    \cup Are("keepsCopy", {"PA_ConvertPicture"})
    \cup Are("convert", {"PA_PictureToGIF", "PA_PictureToEMF"})

\* Dialogs.
Dialogs ==
  Are("plain", {"PA_NewDialog", "PA_OpenDialog", "PA_CloseDialog", "PA_Dial4DSetEnable",
      "PA_Dial4DGetVariable", "PA_Dial4DSetVariable"})
    \cup Are("modal", {"PA_ModalDialog"})

DialogNumbers ==
  Are("plain", {"PA_Dial4DGetLong", "PA_Dial4DSetLong", "PA_Dial4DGetReal", "PA_Dial4DSetReal",
      "PA_Dial4DGetString", "PA_Dial4DSetString"})

DialogTexts ==
  Are("plain", {"PA_Dial4DGetText", "PA_Dial4DSetText", "PA_Dial4DSetPicture",
      "PA_Dial4DSaveVariables", "PA_Dial4DRestoreVariables", "PA_Dial4DGetArrayReal",
      "PA_Dial4DGetArrayString", "PA_Dial4DGetArrayLong", "PA_Dial4DSetAreaHandler"})

DialogRectangles ==
  Are("plain", {"PA_Dial4DGetVariableRect", "PA_Dial4DSetArrayTextFromResource",
      "PA_Dial4DSetArrayTextFromTableList", "PA_Dial4DSetArrayTextFromFieldList",
      "PA_Dial4DBeginUpdateVariables", "PA_Dial4DEndUpdateVariables", "PA_Dial4DNewArrayString",
      "PA_Dial4DSetArrayString"})

DialogDates ==
  Are("plain", {"PA_Dial4DSetDate", "PA_Dial4DGetDate", "PA_Dial4DShowHideVariable",
      "PA_Dial4DGotoPage", "PA_Dial4DGetCurrentPage", "PA_Dial4DNewTableFieldHList",
      "PA_Dial4DDisposeHList"})

DialogDrags ==
  Are("plain", {"PA_Dial4DGetDragInfo", "PA_Dial4DGetTableFieldHListCurrent",
      "PA_Dial4DNewArrayLong", "PA_Dial4DSetArrayLong", "PA_Dial4DSetArrayTextFromTTR",
      "PA_Dial4DGetArraySize", "PA_Dial4DDeleteArrayElements", "PA_Dial4DRedrawExternalArea"})

DialogPictures ==
  Are("plain", {"PA_Dial4DNewArrayPicture", "PA_Dial4DSetArrayPicture",
      "PA_Dial4DSetArrayPictureFromResources", "PA_Dial4DSetEnterable", "PA_Dial4DSetMin",
      "PA_Dial4DSetMinDate", "PA_Dial4DSetMax", "PA_Dial4DSetMaxDate"})

DialogUserData ==
  Are("plain", {"PA_Dial4DSetUserData", "PA_Dial4DGetUserData", "PA_Dial4DSet3StatesCheckBox",
      "PA_Dial4DDial4DFromWindow", "PA_Dial4DWindowFromDial4D",
      "PA_Dial4DSetTableFieldHListCurrent", "PA_Dial4DNewArrayReal", "PA_Dial4DSetArrayReal"})

DialogFilters ==
  Are("plain", {"PA_Dial4DSetEntryFilter", "PA_Dial4DSetDisplayFormat", "PA_Dial4DNewArrayText",
      "PA_Dial4DSetArrayText", "PA_Dial4DGetArrayText", "PA_Dial4DDisposeEmptyDialog",
      "PA_Dial4DShowHideObject"})

DialogTimes ==
  Are("plain", {"PA_Dial4DSetTime", "PA_Dial4DGetTime", "PA_Dial4DSetObjectTitle",
      "PA_Dial4DUpdateObjectTitle", "PA_Dial4DSetVariableRect"})

DialogWindows ==
  Are("plain", {"PA_Dial4DAllowXResize", "PA_Dial4DAllowYResize", "PA_Dial4DGetWindowMinMaxInfo",
      "PA_Dial4DSetWindowSize"})

DialogFocus ==
  Are("plain", {"PA_Dial4DFindArrayLong", "PA_Dial4DFindArrayReal", "PA_Dial4DGetLastObject",
      "PA_Dial4DGotoVariable", "PA_Dial4DCancelValidate"})
    \cup Are("highlight", {"PA_Dial4DHighlightText"})

\* Drawing axes.
Axes ==
  Are("silent", {"PA_GetAreaObjectName"})
    \cup Are("axis", {"PA_UseQuartzAxis", "PA_UseQuickdrawAxis"})
    \cup Are("areaEvent", {"PA_IsAreaVisible"})

Functions ==
    UNION {Main, HandleManager, Unistrings, CopiedStrings, Pictures, Objects, Properties,
         Conversions, Application, Folders, Platform, Structure, Records, CurrentRecord,
         Relations, Tables, FieldKinds, FieldLists, OrderBy, Query, QueryLines, GetParameters,
         PointerParameters, SetParameters, ReturnValues, AreaProperties, AreaSelection,
         DragAndDrop, DragContext, Keyboard, AreaAnswers, AreaWeb, AreaDrawing, GetFields,
         GetOtherFields, SetFields, SetOtherFields, CreateVariable, GetVariables,
         GetOtherVariables, SetVariables, References, ArraySize, GetElements, GetOtherElements,
         SetElements, ReplaceElements, Formats, Charsets, Selections, Sets, Methods, Tokens,
         Commands, Localisation, Printing, Processes, ProcessTurns, Documents, CreateResources,
         GetResources, LockResources, ResourceNames, ResourceLists, ResourceFiles, Users, Windows,
         NewWindows, Menus, Web, Editors, Alerts, Dialogs, DialogNumbers, DialogTexts,
         DialogRectangles, DialogDates, DialogDrags, DialogPictures, DialogUserData,
         DialogFilters, DialogTimes, DialogWindows, DialogFocus, Axes}

Classes == {f[2] : f \in Functions}
================================================================================
